---- MODULE Spec2Model ----
(***************************************************************************)
(* WebSocketManager of cloud-api/app/websocket_service.py: the connection *)
(* registry (active_connections, device_to_connection), connect and        *)
(* disconnect, and the fan-out calls send_threat_alert and                 *)
(* send_security_update, as asyncio tasks that interleave at their awaits. *)
(* Every action runs one task from one await to the next; the outcome of   *)
(* an awaited channel or store operation is decided when it completes.     *)
(***************************************************************************)
EXTENDS Integers, Sequences, FiniteSets, TLC

\* ------------------------------------------------------------------ bounds
Devices == {"D1", "D2"}
\* connect calls in one behaviour; the k-th call gets connection id k and
\* is passed channel k
MaxConn == 3
\* disconnect calls made from outside the manager in one behaviour
MaxDisc == 1
\* messages kept in the log of one channel
MaxSent == 2
ConnIds == 1..MaxConn

\* --------------------------------------------------------- program constants
DefaultSubscriptions == {"phishing", "malware", "scam"}
DefaultRiskThreshold == 50
DefaultRegions == <<"IN">>
SeverityValues == {"low", "medium", "high", "critical"}
StaleAfter == 300
ReaperInterval == 60
HeartbeatInterval == 30

VARIABLES
    active_connections,   \* dict connection_id -> ConnectionInfo, in insertion order
    device_to_connection, \* dict device_id -> connection_id
    ws,                   \* the channels: ws[k] is the WebSocket passed to call k
    redis,                \* connection ids that have a ws_connection:<id> key
    conn,                 \* the connect() calls and where each is suspended
    disc,                 \* the running disconnect() tasks
    disc_calls,           \* the ids disconnect() was called with from outside, in order
                          \* (0: an id never registered; -1: a disconnect_device
                          \* call that found no mapping and made no disconnect call)
    fan,                  \* the fan-out call (send_threat_alert / send_security_update)
    task_errors,          \* exceptions that ended a disconnect task
    now,                  \* datetime.utcnow(), in seconds
    bcast,                \* the broadcast_system_message call
    heartbeat,            \* the _heartbeat_monitor task
    reaper,               \* the _cleanup_stale_connections task
    frames,               \* the handle_client_message calls, per connection id
    threat_reports,       \* the redis list "threat_reports", newest report first
    stats                 \* what get_connection_stats returned last

vars == <<active_connections, device_to_connection, ws, redis, conn, disc,
          disc_calls, fan, task_errors, now, bcast, heartbeat, reaper, frames, threat_reports, stats>>

\* ------------------------------------------------------- dict helpers
Keys(ac) == {ac[i].connection_id : i \in 1..Len(ac)}
Get(ac, c) == ac[CHOOSE i \in 1..Len(ac) : ac[i].connection_id = c]
Del(ac, c) == SelectSeq(ac, LAMBDA e : e.connection_id # c)
\* (the key is kept)
DelKey_keep(d, k) == d
DelKey(d, k) == [x \in (DOMAIN d) \ {k} |-> d[x]]
SetKey(d, k, v) == [x \in (DOMAIN d) \cup {k} |-> IF x = k THEN v ELSE d[x]]
SeqToSet(s) == {s[i] : i \in 1..Len(s)}

\* ------------------------------------------------------- channels
\* send_text on a channel: fails when the peer is gone or the channel was closed
CanSend(ch) == ws[ch].state = "open" /\ ~ws[ch].broken
\* (the log of a channel keeps the first MaxSent messages it was sent)
Deliver(w, ch, msg) ==
    [w EXCEPT ![ch].sent = IF Len(@) < MaxSent THEN Append(@, msg) ELSE @]
\* close(): the channel is terminated whether or not close() raised
CloseChannel(w, ch) == [w EXCEPT ![ch].state = "closed", ![ch].closes = @ + 1]

\* ------------------------------------------------------- ConnectionInfo
ConnectionInfo(cid, device_id, subscriptions) ==
    [connection_id |-> cid,
     device_id |-> device_id,
     websocket |-> cid,
     last_ping |-> now,
     subscriptions |-> IF subscriptions # {} THEN subscriptions ELSE DefaultSubscriptions,
     risk_threshold |-> DefaultRiskThreshold,
     geographic_regions |-> DefaultRegions]

WelcomeMsg(cid, device_id, subscriptions) ==
    [message_type |-> "connection_established",
     device_id |-> device_id,
     data |-> [connection_id |-> cid, subscriptions |-> subscriptions]]

\* a connect() call that has not been made yet
NewCall ==
    [pc |-> "init", device_id |-> "D1", subscriptions |-> {},
     victim |-> 0, victim_device |-> "D1", error |-> "none"]

IdleFan ==
    [pc |-> "idle", kind |-> "none",
     alert |-> [alert_type |-> "none", severity |-> "low", affected_regions |-> <<>>],
     target_devices |-> [given |-> FALSE, list |-> <<>>],
     seen |-> <<>>, target_connections |-> <<>>, idx |-> 0, sent_count |-> 0,
     failed |-> <<>>, scheduled |-> {}]

\* iter(self.active_connections.items()): the dict's size when the iterator
\* was made, the entries it still owes, the keys it has passed
DictIter(ac) == [used |-> Len(ac), len |-> Len(ac), passed |-> {}]

\* no broadcast_system_message call has been made yet
IdleBcast ==
    [pc |-> "idle", seen |-> <<>>, it |-> DictIter(<<>>), cur |-> 0,
     device_id |-> "D1", sent_count |-> 0, failed |-> <<>>, scheduled |-> {},
     error |-> "none"]

\* _heartbeat_monitor before start_background_tasks
IdleHeartbeat ==
    [pc |-> "off", slept |-> FALSE, seen |-> <<>>, it |-> DictIter(<<>>),
     cur |-> 0, device_id |-> "D1", attempted |-> {}, failed |-> <<>>,
     scheduled |-> {}, passes |-> 0, error |-> "none"]

\* _cleanup_stale_connections before start_background_tasks
IdleReaper ==
    [pc |-> "off", slept |-> FALSE, seen |-> <<>>, scan_now |-> 0,
     stale_connections |-> <<>>, idx |-> 0, device_id |-> "D1",
     passes |-> 0, error |-> "none"]

\* get_connection_stats has not been called
NoStats ==
    [total_connections |-> -1, stale_connections |-> -1,
     subscription_counts |-> [t \in {} |-> 0]]

\* no frame is being handled for a connection
IdleFrames ==
    [pc |-> "idle", reply |-> [message_type |-> "none"],
     report |-> [report_id |-> <<0, 0>>, device_id |-> "D1"], log |-> <<>>]

Init ==
    /\ active_connections = <<>>
    /\ device_to_connection = [d \in {} |-> 0]
    /\ ws = [k \in ConnIds |-> [state |-> "new", broken |-> FALSE, closes |-> 0, sent |-> <<>>]]
    /\ redis = {}
    /\ conn = [k \in ConnIds |-> NewCall]
    /\ disc = <<>>
    /\ disc_calls = <<>>
    /\ fan = IdleFan
    /\ task_errors = {}
    /\ now = 0
    /\ bcast = IdleBcast
    /\ heartbeat = IdleHeartbeat
    /\ reaper = IdleReaper
    /\ frames = [k \in ConnIds |-> IdleFrames]
    /\ threat_reports = <<>>
    /\ stats = NoStats

\* ------------------------------------------------------- the environment
\* the peer of an accepted channel goes away: later sends and closes on it fail
PeerLost(ch) ==
    /\ ws[ch].state = "open"
    /\ ~ws[ch].broken
    /\ ws' = [ws EXCEPT ![ch].broken = TRUE]
    /\ UNCHANGED <<active_connections, device_to_connection, redis, conn, disc,
                   disc_calls, fan, task_errors, now, bcast, heartbeat, reaper, frames, threat_reports, stats>>

\* ------------------------------------------------------- connect
\* lines 137-165: build the ConnectionInfo, store it in both maps, and start
\* sending the welcome message
Registered(ac, k) == Append(ac, ConnectionInfo(k, conn[k].device_id, conn[k].subscriptions))
Indexed(d2c, k) == SetKey(d2c, conn[k].device_id, k)

\* connect() is called: the connection id is drawn and accept() is awaited
ConnectCall(k, device_id, subscriptions) ==
    /\ conn[k].pc = "init"
    /\ \A j \in 1..(k - 1) : conn[j].pc # "init"
    /\ conn' = [conn EXCEPT ![k] = [NewCall EXCEPT !.pc = "accept", !.device_id = device_id,
                                                   !.subscriptions = subscriptions]]
    /\ UNCHANGED <<active_connections, device_to_connection, ws, redis, disc,
                   disc_calls, fan, task_errors, now, bcast, heartbeat, reaper, frames, threat_reports, stats>>

\* accept() completed: disconnect the device's existing connection, if it has
\* one, else register
ConnectAccepted(k) ==
    /\ conn[k].pc = "accept"
    /\ LET d == conn[k].device_id
           w == [ws EXCEPT ![k].state = "open"]
       IN IF d \in DOMAIN device_to_connection
             /\ device_to_connection[d] \in Keys(active_connections)
          THEN \* disconnect_device -> disconnect: awaits close() of the old channel
               /\ conn' = [conn EXCEPT ![k].pc = "close",
                              ![k].victim = device_to_connection[d],
                              ![k].victim_device =
                                  Get(active_connections, device_to_connection[d]).device_id]
               /\ ws' = w
               /\ UNCHANGED <<active_connections, device_to_connection>>
          ELSE \* no mapping, or disconnect() returned at once (line 183)
               /\ conn' = [conn EXCEPT ![k].pc = "welcome"]
               /\ ws' = w
               /\ active_connections' = Registered(active_connections, k)
               /\ device_to_connection' = Indexed(device_to_connection, k)
    /\ UNCHANGED <<redis, disc, disc_calls, fan, task_errors, now, bcast, heartbeat, reaper, frames, threat_reports, stats>>

\* close() of the old channel completed (its error is swallowed): remove the
\* old connection from both maps and await redis.delete
ConnectCloseDone(k) ==
    /\ conn[k].pc = "close"
    /\ ws' = CloseChannel(ws, conn[k].victim)
    /\ IF conn[k].victim \in Keys(active_connections)
       THEN /\ active_connections' = Del(active_connections, conn[k].victim)
            /\ device_to_connection' = DelKey(device_to_connection, conn[k].victim_device)
            /\ conn' = [conn EXCEPT ![k].pc = "delete"]
       ELSE \* del self.active_connections[connection_id] raises KeyError
            /\ conn' = [conn EXCEPT ![k].pc = "raised", ![k].error = "KeyError"]
            /\ UNCHANGED <<active_connections, device_to_connection>>
    /\ UNCHANGED <<redis, disc, disc_calls, fan, task_errors, now, bcast, heartbeat, reaper, frames, threat_reports, stats>>

\* redis.delete completed: on success disconnect() returns and connect()
\* registers the new connection; a store error propagates out of connect()
ConnectDeleteDone(k) ==
    /\ conn[k].pc = "delete"
    /\ \E ok \in BOOLEAN :
        IF ok
        THEN /\ redis' = redis \ {conn[k].victim}
             /\ active_connections' = Registered(active_connections, k)
             /\ device_to_connection' = Indexed(device_to_connection, k)
             /\ conn' = [conn EXCEPT ![k].pc = "welcome"]
        ELSE /\ conn' = [conn EXCEPT ![k].pc = "raised", ![k].error = "RedisError"]
             /\ UNCHANGED <<redis, active_connections, device_to_connection>>
    /\ UNCHANGED <<ws, disc, disc_calls, fan, task_errors, now, bcast, heartbeat, reaper, frames, threat_reports, stats>>

\* the send of connection_established completed: _send_message re-raises
ConnectWelcomeDone(k) ==
    /\ conn[k].pc = "welcome"
    /\ IF CanSend(k)
       THEN /\ ws' = Deliver(ws, k, WelcomeMsg(k, conn[k].device_id, conn[k].subscriptions))
            /\ conn' = [conn EXCEPT ![k].pc = "setex"]
       ELSE /\ conn' = [conn EXCEPT ![k].pc = "raised", ![k].error = "SendError"]
            /\ UNCHANGED ws
    /\ UNCHANGED <<active_connections, device_to_connection, redis, disc,
                   disc_calls, fan, task_errors, now, bcast, heartbeat, reaper, frames, threat_reports, stats>>

\* redis.setex completed: connect() returns the connection id, or the store
\* error propagates
ConnectSetexDone(k) ==
    /\ conn[k].pc = "setex"
    /\ \E ok \in BOOLEAN :
        IF ok
        THEN /\ redis' = redis \cup {k}
             /\ conn' = [conn EXCEPT ![k].pc = "done"]
        ELSE /\ conn' = [conn EXCEPT ![k].pc = "raised", ![k].error = "RedisError"]
             /\ UNCHANGED redis
    /\ UNCHANGED <<active_connections, device_to_connection, ws, disc,
                   disc_calls, fan, task_errors, now, bcast, heartbeat, reaper, frames, threat_reports, stats>>

\* ------------------------------------------------------- disconnect
RemoveAt(s, i) == SubSeq(s, 1, i - 1) \o SubSeq(s, i + 1, Len(s))
DiscTask(c) == [connection_id |-> c, device_id |-> "D1", pc |-> "start"]

\* disconnect(connection_id) is called from outside the manager
ExternalDisconnect(c) ==
    /\ Len(disc_calls) < MaxDisc
    /\ conn[c].pc # "init"
    /\ disc' = Append(disc, DiscTask(c))
    /\ disc_calls' = Append(disc_calls, c)
    /\ UNCHANGED <<active_connections, device_to_connection, ws, redis, conn,
                   fan, task_errors, now, bcast, heartbeat, reaper, frames, threat_reports, stats>>

\* disconnect() without the membership test of line 183
DisconnectStart_unguarded(i) ==
    /\ i \in 1..Len(disc)
    /\ disc[i].pc = "start"
    /\ disc' = [disc EXCEPT ![i].pc = "close"]
    /\ UNCHANGED <<active_connections, device_to_connection, ws, redis, conn,
                   disc_calls, fan, task_errors, now, bcast, heartbeat, reaper, frames, threat_reports, stats>>

\* a disconnect task starts: return if the id is absent, else await close()
DisconnectStart(i) ==
    /\ i \in 1..Len(disc)
    /\ disc[i].pc = "start"
    /\ IF disc[i].connection_id \in Keys(active_connections)
       THEN disc' = [disc EXCEPT ![i].pc = "close",
                        ![i].device_id = Get(active_connections, disc[i].connection_id).device_id]
       ELSE disc' = RemoveAt(disc, i)
    /\ UNCHANGED <<active_connections, device_to_connection, ws, redis, conn,
                   disc_calls, fan, task_errors, now, bcast, heartbeat, reaper, frames, threat_reports, stats>>

\* close() completed (error swallowed): remove from both maps, await redis.delete
DisconnectCloseDone(i) ==
    /\ i \in 1..Len(disc)
    /\ disc[i].pc = "close"
    /\ ws' = CloseChannel(ws, disc[i].connection_id)
    /\ IF disc[i].connection_id \in Keys(active_connections)
       THEN /\ active_connections' = Del(active_connections, disc[i].connection_id)
            /\ device_to_connection' = DelKey(device_to_connection, disc[i].device_id)
            /\ disc' = [disc EXCEPT ![i].pc = "delete"]
            /\ UNCHANGED task_errors
       ELSE /\ task_errors' = task_errors \cup
                    {[connection_id |-> disc[i].connection_id, error |-> "KeyError"]}
            /\ disc' = RemoveAt(disc, i)
            /\ UNCHANGED <<active_connections, device_to_connection>>
    /\ UNCHANGED <<redis, conn, disc_calls, fan, now, bcast, heartbeat, reaper, frames, threat_reports, stats>>

\* redis.delete completed: the task ends, with the store's error if it failed
DisconnectDeleteDone(i) ==
    /\ i \in 1..Len(disc)
    /\ disc[i].pc = "delete"
    /\ \E ok \in BOOLEAN :
        IF ok
        THEN /\ redis' = redis \ {disc[i].connection_id}
             /\ UNCHANGED task_errors
        ELSE /\ task_errors' = task_errors \cup
                    {[connection_id |-> disc[i].connection_id, error |-> "RedisError"]}
             /\ UNCHANGED redis
    /\ disc' = RemoveAt(disc, i)
    /\ UNCHANGED <<active_connections, device_to_connection, ws, conn,
                   disc_calls, fan, now, bcast, heartbeat, reaper, frames, threat_reports, stats>>

\* ------------------------------------------------------- fan-out
\* AlertSeverity -> score (lines 417-422)
severity_scores(severity) ==
    CASE severity = "low" -> 25
      [] severity = "medium" -> 50
      [] severity = "high" -> 75
      [] severity = "critical" -> 95
      [] OTHER -> 0

\* should_receive_alert with the threshold test off by one (<= for <)
should_receive_alert_strict(connection, alert) ==
    /\ alert.alert_type \in connection.subscriptions
    /\ ~(severity_scores(alert.severity) <= connection.risk_threshold)
    /\ ~(/\ alert.affected_regions # <<>>
          /\ connection.geographic_regions # <<>>
          /\ SeqToSet(alert.affected_regions) \cap SeqToSet(connection.geographic_regions) = {})

\* does the connection receive the alert
should_receive_alert(connection, alert) ==
    IF alert.alert_type \notin connection.subscriptions
    THEN FALSE
    ELSE IF severity_scores(alert.severity) < connection.risk_threshold
    THEN FALSE
    ELSE IF /\ alert.affected_regions # <<>>
            /\ connection.geographic_regions # <<>>
            /\ SeqToSet(alert.affected_regions) \cap SeqToSet(connection.geographic_regions) = {}
    THEN FALSE
    ELSE TRUE

\* a target_devices list resolved through both maps, in list order
RECURSIVE ResolveTargets(_, _, _)
ResolveTargets(list, ac, d2c) ==
    IF list = <<>>
    THEN <<>>
    ELSE LET d == Head(list)
             rest == ResolveTargets(Tail(list), ac, d2c)
         IN IF d \in DOMAIN d2c /\ d2c[d] \in Keys(ac)
            THEN <<Get(ac, d2c[d])>> \o rest
            ELSE rest

\* `if target_devices:` is false for None and for the empty list
Truthy(target_devices) == target_devices.given /\ target_devices.list # <<>>

\* target_connections of send_threat_alert
AlertTargets(ac, d2c, alert, target_devices) ==
    IF Truthy(target_devices)
    THEN ResolveTargets(target_devices.list, ac, d2c)
    ELSE SelectSeq(ac, LAMBDA c : should_receive_alert(c, alert))

\* target_connections of send_security_update
UpdateTargets(ac, d2c, target_devices) ==
    IF Truthy(target_devices)
    THEN ResolveTargets(target_devices.list, ac, d2c)
    ELSE ac

Priority(alert) == IF alert.severity \in {"high", "critical"} THEN "high" ELSE "normal"

\* (the envelope keeps the stamp of the call's first recipient)
FanMsg_first(f, device_id) ==
    [message_type |-> IF f.kind = "alert" THEN "threat_alert" ELSE "security_update",
     device_id |-> f.target_connections[1].device_id,
     data |-> [alert |-> f.alert,
               priority |-> IF f.kind = "alert" THEN Priority(f.alert) ELSE "none"]]

\* the envelope of the call, stamped for one recipient
FanMsg(f, device_id) ==
    IF f.kind = "alert"
    THEN [message_type |-> "threat_alert", device_id |-> device_id,
          data |-> [alert |-> f.alert, priority |-> Priority(f.alert)]]
    ELSE [message_type |-> "security_update", device_id |-> device_id,
          data |-> [alert |-> f.alert, priority |-> "none"]]

\* the call starts: the targets are fixed and the first send is awaited
\* (seen: active_connections as the call found it)
StartFan(kind, alert, target_devices, targets) ==
    [IdleFan EXCEPT !.pc = IF targets = <<>> THEN "done" ELSE "send",
                    !.seen = active_connections,
                    !.kind = kind, !.alert = alert,
                    !.target_devices = target_devices,
                    !.target_connections = targets,
                    !.idx = IF targets = <<>> THEN 0 ELSE 1]

SendThreatAlertCall(alert, target_devices) ==
    /\ fan.pc = "idle"
    /\ fan' = StartFan("alert", alert, target_devices,
                       AlertTargets(active_connections, device_to_connection,
                                    alert, target_devices))
    /\ UNCHANGED <<active_connections, device_to_connection, ws, redis, conn,
                   disc, disc_calls, task_errors, now, bcast, heartbeat, reaper, frames, threat_reports, stats>>

SendSecurityUpdateCall(target_devices) ==
    /\ fan.pc = "idle"
    /\ fan' = StartFan("update", IdleFan.alert, target_devices,
                       UpdateTargets(active_connections, device_to_connection,
                                     target_devices))
    /\ UNCHANGED <<active_connections, device_to_connection, ws, redis, conn,
                   disc, disc_calls, task_errors, now, bcast, heartbeat, reaper, frames, threat_reports, stats>>

\* after one recipient: the next send, or return
Advance(f) ==
    IF f.idx < Len(f.target_connections)
    THEN [f EXCEPT !.idx = @ + 1]
    ELSE [f EXCEPT !.pc = "done"]

\* does a failed send of this call schedule disconnect()
SchedulesTeardown(f) == f.kind = "alert"

\* the awaited send to target_connections[idx] completed
FanSendDone ==
    /\ fan.pc = "send"
    /\ LET connection == fan.target_connections[fan.idx]
           failed == [fan EXCEPT !.failed = Append(@, connection.connection_id)]
       IN IF CanSend(connection.websocket)
          THEN /\ ws' = Deliver(ws, connection.websocket, FanMsg(fan, connection.device_id))
               /\ fan' = Advance([fan EXCEPT !.sent_count = @ + 1])
               /\ UNCHANGED disc
          ELSE /\ UNCHANGED ws
               /\ IF ~SchedulesTeardown(fan)
                  THEN \* send_security_update only logs
                       /\ fan' = Advance(failed)
                       /\ UNCHANGED disc
                  ELSE IF connection.connection_id \in Keys(active_connections)
                  THEN \* asyncio.create_task(self.disconnect(cid))
                       /\ disc' = Append(disc, DiscTask(connection.connection_id))
                       /\ fan' = Advance([failed EXCEPT !.scheduled =
                                              @ \cup {connection.connection_id}])
                  ELSE \* next() finds no key: StopIteration inside the coroutine
                       /\ fan' = [failed EXCEPT !.pc = "raised"]
                       /\ UNCHANGED disc
    /\ UNCHANGED <<active_connections, device_to_connection, redis, conn,
                   disc_calls, task_errors, now, bcast, heartbeat, reaper, frames, threat_reports, stats>>

\* ------------------------------------------------------- the inputs
SubscriptionChoices == {{}, {"new_threat"}}
AlertChoices ==
    {[alert_type |-> "new_threat", severity |-> s, affected_regions |-> <<"IN">>] :
        s \in {"low", "high"}}
TargetChoices ==
    {[given |-> FALSE, list |-> <<>>], [given |-> TRUE, list |-> <<>>],
     [given |-> TRUE, list |-> <<"D1">>], [given |-> TRUE, list |-> <<"D1", "D1">>],
     [given |-> TRUE, list |-> <<"D1", "D2">>]}

HighAlert == [alert_type |-> "new_threat", severity |-> "high", affected_regions |-> <<"IN">>]
\* connect calls in the specifications that have a fan-out call
FanConns == 2
\* disconnect and disconnect_device calls made from outside in SpecUnreg
MaxUnreg == 4
\* the last instant the clock is read at, in seconds
MaxNow == 360
\* passes of a loop that are counted
MaxPasses == 1

\* ------------------------------------------------------- specifications
\* Spec: connect and disconnect tasks interleaved at every await
Next ==
    \/ \E k \in ConnIds, d \in Devices : ConnectCall(k, d, {"new_threat"})
    \/ \E k \in ConnIds : ConnectAccepted(k)
    \/ \E k \in ConnIds : ConnectCloseDone(k)
    \/ \E k \in ConnIds : ConnectDeleteDone(k)
    \/ \E k \in ConnIds : ConnectWelcomeDone(k)
    \/ \E k \in ConnIds : ConnectSetexDone(k)
    \/ \E c \in ConnIds : ExternalDisconnect(c)
    \/ \E i \in 1..Len(disc) : DisconnectStart(i)
    \/ \E i \in 1..Len(disc) : DisconnectCloseDone(i)
    \/ \E i \in 1..Len(disc) : DisconnectDeleteDone(i)
    \/ \E ch \in ConnIds : PeerLost(ch)

Spec == Init /\ [][Next]_vars

\* SpecFan: one send_threat_alert call interleaved with connect and
\* disconnect tasks
NextFan ==
    \/ \E k \in 1..FanConns, d \in Devices : ConnectCall(k, d, {"new_threat"})
    \/ \E k \in ConnIds : ConnectAccepted(k)
    \/ \E k \in ConnIds : ConnectCloseDone(k)
    \/ \E k \in ConnIds : ConnectDeleteDone(k)
    \/ \E k \in ConnIds : ConnectWelcomeDone(k)
    \/ \E k \in ConnIds : ConnectSetexDone(k)
    \/ \E c \in ConnIds : ExternalDisconnect(c)
    \/ \E i \in 1..Len(disc) : DisconnectStart(i)
    \/ \E i \in 1..Len(disc) : DisconnectCloseDone(i)
    \/ \E i \in 1..Len(disc) : DisconnectDeleteDone(i)
    \/ \E ch \in ConnIds : PeerLost(ch)
    \/ \E t \in {[given |-> FALSE, list |-> <<>>], [given |-> TRUE, list |-> <<"D1">>]} :
           SendThreatAlertCall(HighAlert, t)
    \/ FanSendDone

SpecFan == Init /\ [][NextFan]_vars

\* SpecSeq: every call runs to completion, with the tasks it created, before
\* the next call is made
Quiet ==
    /\ \A k \in ConnIds : conn[k].pc \in {"init", "done", "raised"}
    /\ disc = <<>>
    /\ fan.pc # "send"

NextSeq ==
    \/ Quiet /\ \E k \in 1..FanConns, d \in Devices, s \in SubscriptionChoices : ConnectCall(k, d, s)
    \/ \E k \in ConnIds : ConnectAccepted(k)
    \/ \E k \in ConnIds : ConnectCloseDone(k)
    \/ \E k \in ConnIds : ConnectDeleteDone(k)
    \/ \E k \in ConnIds : ConnectWelcomeDone(k)
    \/ \E k \in ConnIds : ConnectSetexDone(k)
    \/ Quiet /\ \E c \in ConnIds : ExternalDisconnect(c)
    \/ \E i \in 1..Len(disc) : DisconnectStart(i)
    \/ \E i \in 1..Len(disc) : DisconnectCloseDone(i)
    \/ \E i \in 1..Len(disc) : DisconnectDeleteDone(i)
    \/ \E ch \in ConnIds : PeerLost(ch)
    \/ Quiet /\ \E a \in AlertChoices, t \in TargetChoices : SendThreatAlertCall(a, t)
    \/ Quiet /\ \E t \in TargetChoices : SendSecurityUpdateCall(t)
    \/ FanSendDone

SpecSeq == Init /\ [][NextSeq]_vars

\* SpecElig: send_threat_alert without target_devices, over every
\* combination of one session's preferences and the alert's fields; a second
\* session with fixed preferences is registered beside it
EligTags == {"new_threat", "phishing"}
EligThresholds == {0, 25, 26, 50, 75, 76, 95, 100}
EligRegions == {<<>>, <<"IN">>, <<"US">>, <<"IN", "US">>}
EligAlerts ==
    {[alert_type |-> t, severity |-> v, affected_regions |-> r] :
        t \in {"new_threat", "security_update"}, v \in SeverityValues, r \in EligRegions}

InitElig ==
    /\ \E subs \in SUBSET EligTags, th \in EligThresholds, rg \in EligRegions :
        /\ active_connections =
            <<[connection_id |-> 1, device_id |-> "D1", websocket |-> 1, last_ping |-> 0,
               subscriptions |-> subs, risk_threshold |-> th, geographic_regions |-> rg],
              [connection_id |-> 2, device_id |-> "D2", websocket |-> 2, last_ping |-> 0,
               subscriptions |-> {"new_threat"}, risk_threshold |-> DefaultRiskThreshold,
               geographic_regions |-> DefaultRegions]>>
        /\ conn = [k \in ConnIds |->
                    IF k = 1 THEN [NewCall EXCEPT !.pc = "done", !.subscriptions = subs]
                    ELSE IF k = 2
                    THEN [NewCall EXCEPT !.pc = "done", !.device_id = "D2",
                                         !.subscriptions = {"new_threat"}]
                    ELSE NewCall]
    /\ device_to_connection = [d \in Devices |-> IF d = "D1" THEN 1 ELSE 2]
    /\ ws = [k \in ConnIds |->
                [state |-> IF k <= 2 THEN "open" ELSE "new", broken |-> FALSE,
                 closes |-> 0, sent |-> <<>>]]
    /\ redis = {1, 2}
    /\ disc = <<>>
    /\ disc_calls = <<>>
    /\ fan = IdleFan
    /\ task_errors = {}
    /\ now = 0
    /\ bcast = IdleBcast
    /\ heartbeat = IdleHeartbeat
    /\ reaper = IdleReaper
    /\ frames = [k \in ConnIds |-> IdleFrames]
    /\ threat_reports = <<>>
    /\ stats = NoStats

NextElig ==
    \/ \E a \in EligAlerts : SendThreatAlertCall(a, [given |-> FALSE, list |-> <<>>])
    \/ FanSendDone

SpecElig == InitElig /\ [][NextElig]_vars

\* ======================================================= claims
SessionsOf(d) == {c \in Keys(active_connections) : Get(active_connections, c).device_id = d}
CallsFor(d) == {k \in ConnIds : conn[k].pc # "init" /\ conn[k].device_id = d}
Returned(k) == conn[k].pc \in {"done", "raised"}
Last(S) == CHOOSE n \in S : \A m \in S : m <= n

\* C1 (as claimed): when only register calls have been made, one after the
\* other, and the Nth call for device D has completed, D has exactly one live
\* session, both maps resolve D to the Nth call's session on the Nth call's
\* channel, every earlier channel of D is closed, and no call raised. Read
\* with the premise that each call's own channel took the welcome message.
C1_SequentialRegister ==
    \A d \in Devices :
        (/\ CallsFor(d) # {}
         /\ \A k \in ConnIds : conn[k].pc # "init" =>
                /\ Returned(k)
                /\ conn[k].error # "SendError"
         /\ disc = <<>> /\ disc_calls = <<>> /\ fan.pc = "idle")
        => LET n == Last(CallsFor(d))
           IN /\ SessionsOf(d) = {n}
              /\ d \in DOMAIN device_to_connection
              /\ device_to_connection[d] = n
              /\ Get(active_connections, n).websocket = n
              /\ \A k \in CallsFor(d) \ {n} : ws[k].state = "closed"
              /\ \A k \in CallsFor(d) : conn[k].pc = "done"

\* C2 (as claimed): active_connections never holds two sessions of one device.
C2_OneSessionPerDevice ==
    \A d \in Devices : Cardinality(SessionsOf(d)) <= 1

\* C3 (as claimed): a register of session a for a device whose previous
\* session p is being unregistered by another task ends, in every
\* interleaving, with a registered in both maps, p gone from both maps with
\* its channel closed, and the register call returned. (No store operation
\* failed, a's channel took the welcome message, and the only other calls
\* are the unregister calls of p.)
C3_NewestWins ==
    \A a \in ConnIds :
        LET d == conn[a].device_id
            p == conn[a].victim
        IN (/\ Returned(a)
            /\ p # 0
            /\ CallsFor(d) = {p, a}
            /\ conn[p].pc = "done"
            /\ disc = <<>>
            /\ disc_calls # <<>>
            /\ \A i \in 1..Len(disc_calls) : disc_calls[i] = p
            /\ conn[a].error \notin {"SendError", "RedisError"}
            /\ \A e \in task_errors : e.error # "RedisError")
           => /\ conn[a].pc = "done"
              /\ a \in Keys(active_connections)
              /\ d \in DOMAIN device_to_connection
              /\ device_to_connection[d] = a
              /\ p \notin Keys(active_connections)
              /\ ws[p].state = "closed"

\* envelopes of the fan-out call that reached channel ch
FanEnvelopes(ch) ==
    SelectSeq(ws[ch].sent, LAMBDA e : e.message_type \in {"threat_alert", "security_update"})
Occurrences(seq, x) == Len(SelectSeq(seq, LAMBDA y : y = x))
\* sends of the call issued on session c's channel and completed
Attempts(c) == Len(FanEnvelopes(c)) + Occurrences(fan.failed, c)
TargetIds == {fan.target_connections[i].connection_id : i \in 1..Len(fan.target_connections)}
RECURSIVE SumOver(_, _)
SumOver(S, f) == IF S = {} THEN 0 ELSE LET x == CHOOSE y \in S : TRUE IN f[x] + SumOver(S \ {x}, f)

\* C4 (as claimed): a device registered with no initial subscriptions, alone
\* in the registry and with a working channel, gets exactly one threat_alert
\* envelope with data.priority = "high" from send_threat_alert(new_threat,
\* high, [IN]) without target_devices, and the call returns 1.
C4_EndToEnd ==
    \A c \in ConnIds :
        (/\ fan.pc = "done" /\ fan.kind = "alert"
         /\ fan.alert = HighAlert
         /\ ~fan.target_devices.given
         /\ Keys(fan.seen) = {c}
         /\ conn[c].subscriptions = {}
         /\ Get(fan.seen, c).subscriptions = DefaultSubscriptions
         /\ Get(fan.seen, c).risk_threshold = DefaultRiskThreshold
         /\ Get(fan.seen, c).geographic_regions = DefaultRegions
         /\ CanSend(c))
        => /\ fan.sent_count = 1
           /\ Len(FanEnvelopes(c)) = 1
           /\ FanEnvelopes(c)[1].message_type = "threat_alert"
           /\ FanEnvelopes(c)[1].data.priority = "high"

\* the severity score of the specification's data model
C5_Score(v) == IF v = "low" THEN 25 ELSE IF v = "medium" THEN 50 ELSE IF v = "high" THEN 75 ELSE 95
C5_Eligible(s, a) ==
    /\ a.alert_type \in s.subscriptions
    /\ C5_Score(a.severity) >= s.risk_threshold
    /\ \/ a.affected_regions = <<>>
       \/ s.geographic_regions = <<>>
       \/ \E i \in 1..Len(a.affected_regions), j \in 1..Len(s.geographic_regions) :
              a.affected_regions[i] = s.geographic_regions[j]

\* C5: in a send_threat_alert call without target_devices, a send is attempted
\* to a live session exactly if its subscriptions hold the alert's type, the
\* severity score is at least its risk_threshold, and the regions of either
\* side are empty or the two share a region; and once the call has returned,
\* exactly those sessions were sent to.
C5_EligibilityIff ==
    (fan.kind = "alert" /\ ~Truthy(fan.target_devices))
    => /\ \A i \in 1..Len(fan.seen) :
            fan.seen[i].connection_id \in TargetIds <=> C5_Eligible(fan.seen[i], fan.alert)
       /\ fan.pc = "done" =>
            \A i \in 1..Len(fan.seen) :
                Attempts(fan.seen[i].connection_id) =
                    IF C5_Eligible(fan.seen[i], fan.alert) THEN 1 ELSE 0

\* C5 witness: the call returned having sent to session 1, whose threshold
\* equals the alert's score and whose regions share one region with the
\* alert's, and not to session 2, whose only region the alert does not name
C5_Witness ==
    /\ fan.pc = "done" /\ fan.kind = "alert"
    /\ fan.sent_count = 1
    /\ Attempts(2) = 0
    /\ Get(fan.seen, 1).risk_threshold = 75
    /\ fan.alert.severity = "high"
    /\ Get(fan.seen, 1).geographic_regions = <<"IN", "US">>
    /\ fan.alert.affected_regions = <<"US">>
    /\ Len(FanEnvelopes(1)) = 1

\* C6 (as claimed): with a target_devices list, the empty list included,
\* sends are attempted only to sessions of listed devices.
C6_OnlyListedDevices ==
    (fan.kind = "alert" /\ fan.target_devices.given)
    => \A i \in 1..Len(fan.target_connections) :
            fan.target_connections[i].device_id \in SeqToSet(fan.target_devices.list)

\* C7 (as claimed): within one fan-out call no session is sent the envelope
\* more than once, and when the call has returned every selected session was
\* attempted exactly once.
C7_ExactlyOncePerSession ==
    /\ \A c \in ConnIds : Attempts(c) <= 1
    /\ fan.pc = "done" => \A c \in TargetIds : Attempts(c) = 1

\* C8 (as claimed): send_threat_alert never raises, and the count it returns
\* is the number of sends that succeeded.
C8_NeverRaises ==
    /\ fan.pc # "raised"
    /\ fan.pc = "done" =>
           fan.sent_count = SumOver(ConnIds, [c \in ConnIds |-> Len(FanEnvelopes(c))])

\* C9 (as claimed, its scheduling part): every session whose send failed in
\* send_threat_alert has an unregister scheduled by the call, and only those.
C9_FailureSchedulesTeardown ==
    fan.kind = "alert" => fan.scheduled = SeqToSet(fan.failed)

\* C10 (as claimed): send_security_update without target_devices attempts
\* every live session, and a session whose send failed has an unregister
\* scheduled by the call, as in send_threat_alert.
C10_UpdateTeardown ==
    fan.kind = "update"
    => /\ ~fan.target_devices.given => TargetIds = Keys(fan.seen)
       /\ fan.scheduled = SeqToSet(fan.failed)

\* ------------------------------------------------------- dict iteration
\* for ... in self.active_connections.items(), with awaits in the loop body:
\* the entries the iterator has not passed, in the dict's order (a dict that
\* has had at most five insertions is never resized, so new entries are
\* placed after the iterator's position)
Rest(ac, it) == SelectSeq(ac, LAMBDA e : e.connection_id \notin it.passed)

\* next(): RuntimeError when the dict's size is not the size the iterator
\* started with, or when an entry turns up after the owed ones were given
IterNext(ac, it) ==
    IF Len(ac) # it.used THEN "RuntimeError"
    ELSE IF Rest(ac, it) = <<>> THEN "stop"
    ELSE IF it.len = 0 THEN "RuntimeError"
    ELSE "ok"

IterStep(ac, it) ==
    [it EXCEPT !.len = @ - 1,
               !.passed = @ \cup {Rest(ac, it)[1].connection_id}]

\* asyncio.create_task(self.disconnect(cid)) for every id of a list
TeardownTasks(failed) == [i \in 1..Len(failed) |-> DiscTask(failed[i])]

\* ------------------------------------------------------- broadcast
BcastMsg(device_id) ==
    [message_type |-> "system_announcement",
     device_id |-> device_id,
     data |-> [message |-> "text", broadcast |-> TRUE]]

\* the for statement of line 360 takes the next entry: the send to it is
\* awaited, or the loop is over and the failed sessions are scheduled, or
\* the iterator raises out of broadcast_system_message
BcastNext(b, ac) ==
    CASE IterNext(ac, b.it) = "ok" ->
            [b EXCEPT !.pc = "send",
                      !.cur = Rest(ac, b.it)[1].connection_id,
                      !.device_id = Rest(ac, b.it)[1].device_id,
                      !.it = IterStep(ac, b.it)]
      [] IterNext(ac, b.it) = "stop" ->
            [b EXCEPT !.pc = "done", !.scheduled = SeqToSet(b.failed)]
      [] OTHER ->
            [b EXCEPT !.pc = "raised", !.error = "RuntimeError"]

BroadcastCall ==
    /\ bcast.pc = "idle"
    /\ bcast' = BcastNext([IdleBcast EXCEPT !.seen = active_connections,
                                            !.it = DictIter(active_connections)],
                          active_connections)
    /\ UNCHANGED <<active_connections, device_to_connection, ws, redis, conn,
                   disc, disc_calls, fan, task_errors, now, heartbeat, reaper,
                   frames, threat_reports, stats>>

\* the awaited send to the current entry completed
BroadcastSendDone ==
    /\ bcast.pc = "send"
    /\ LET ok == CanSend(bcast.cur)
           b == BcastNext(IF ok THEN [bcast EXCEPT !.sent_count = @ + 1]
                                ELSE [bcast EXCEPT !.failed = Append(@, bcast.cur)],
                          active_connections)
       IN /\ ws' = IF ok THEN Deliver(ws, bcast.cur, BcastMsg(bcast.device_id)) ELSE ws
          /\ bcast' = b
          /\ disc' = IF b.pc = "done" THEN disc \o TeardownTasks(b.failed) ELSE disc
    /\ UNCHANGED <<active_connections, device_to_connection, redis, conn,
                   disc_calls, fan, task_errors, now, heartbeat, reaper, frames, threat_reports, stats>>

\* SpecBcast: one broadcast_system_message call interleaved with connect and
\* disconnect tasks
NextBcast ==
    \/ \E k \in 1..FanConns, d \in Devices : ConnectCall(k, d, {"new_threat"})
    \/ \E k \in ConnIds : ConnectAccepted(k)
    \/ \E k \in ConnIds : ConnectCloseDone(k)
    \/ \E k \in ConnIds : ConnectDeleteDone(k)
    \/ \E k \in ConnIds : ConnectWelcomeDone(k)
    \/ \E k \in ConnIds : ConnectSetexDone(k)
    \/ \E c \in ConnIds : ExternalDisconnect(c)
    \/ \E i \in 1..Len(disc) : DisconnectStart(i)
    \/ \E i \in 1..Len(disc) : DisconnectCloseDone(i)
    \/ \E i \in 1..Len(disc) : DisconnectDeleteDone(i)
    \/ \E ch \in ConnIds : PeerLost(ch)
    \/ BroadcastCall
    \/ BroadcastSendDone

SpecBcast == Init /\ [][NextBcast]_vars

\* the message broadcast_system_message sends, as channel ch received it
BcastEnvelopes(ch) ==
    SelectSeq(ws[ch].sent, LAMBDA m : m.message_type = "system_announcement")

\* C11 (as claimed): a broadcast_system_message call that ran while other
\* tasks registered and unregistered sessions has not raised; when it has
\* returned, the count it returns is the number of sends that succeeded,
\* every session that was registered with a working channel from the call
\* to the return has received the message, and every session whose send
\* failed has been scheduled for teardown.
C11_BroadcastAmongTasks ==
    /\ bcast.pc # "raised"
    /\ bcast.pc = "done" =>
        /\ bcast.sent_count =
              Cardinality({c \in ConnIds : Len(BcastEnvelopes(c)) > 0})
        /\ \A c \in Keys(bcast.seen) :
              (c \in Keys(active_connections) /\ CanSend(c))
                  => Len(BcastEnvelopes(c)) = 1
        /\ bcast.scheduled = SeqToSet(bcast.failed)

\* ------------------------------------------------------- repeated disconnect
\* disconnect(c) is called from outside, any number of times up to MaxUnreg;
\* c = 0 is an id that no connect call has returned
DisconnectCall(c) ==
    /\ Len(disc_calls) < MaxUnreg
    /\ IF c = 0 THEN TRUE ELSE conn[c].pc # "init"
    /\ disc' = Append(disc, DiscTask(c))
    /\ disc_calls' = Append(disc_calls, c)
    /\ UNCHANGED <<active_connections, device_to_connection, ws, redis, conn,
                   fan, task_errors, now, bcast, heartbeat, reaper, frames, threat_reports, stats>>

\* disconnect_device(d): disconnect(device_to_connection[d]) if d is mapped
DisconnectDeviceCall(d) ==
    /\ Len(disc_calls) < MaxUnreg
    /\ IF d \in DOMAIN device_to_connection
       THEN /\ disc' = Append(disc, DiscTask(device_to_connection[d]))
            /\ disc_calls' = Append(disc_calls, device_to_connection[d])
       ELSE /\ disc' = disc
            /\ disc_calls' = Append(disc_calls, -1)
    /\ UNCHANGED <<active_connections, device_to_connection, ws, redis, conn,
                   fan, task_errors, now, bcast, heartbeat, reaper, frames, threat_reports, stats>>

\* SpecUnreg: connect, disconnect and disconnect_device calls, each run to
\* completion before the next call is made
NextUnreg ==
    \/ Quiet /\ \E k \in 1..FanConns, d \in Devices : ConnectCall(k, d, {"new_threat"})
    \/ \E k \in ConnIds : ConnectAccepted(k)
    \/ \E k \in ConnIds : ConnectCloseDone(k)
    \/ \E k \in ConnIds : ConnectDeleteDone(k)
    \/ \E k \in ConnIds : ConnectWelcomeDone(k)
    \/ \E k \in ConnIds : ConnectSetexDone(k)
    \/ Quiet /\ \E c \in 0..MaxConn : DisconnectCall(c)
    \/ Quiet /\ \E d \in Devices : DisconnectDeviceCall(d)
    \/ \E i \in 1..Len(disc) : DisconnectStart(i)
    \/ \E i \in 1..Len(disc) : DisconnectCloseDone(i)
    \/ \E i \in 1..Len(disc) : DisconnectDeleteDone(i)
    \/ Quiet /\ \E ch \in ConnIds : PeerLost(ch)

SpecUnreg == Init /\ [][NextUnreg]_vars

\* the disconnect call that is running was made for an id that an earlier,
\* completed call was made for, or for an id that was never registered
RepeatedCall ==
    /\ disc # <<>>
    /\ \/ disc[1].connection_id = 0
       \/ Occurrences(disc_calls, disc[1].connection_id) >= 2

\* C12 (as claimed): when disconnect is called for a session id a second time
\* after the first call completed, or for an id that was never registered, or
\* disconnect_device is called for a device with no mapping, every step of
\* that call leaves active_connections, device_to_connection, every channel
\* and the metadata mirror unchanged, and ends the call with no error.
C12_RepeatedUnregisterNoOp ==
    [][(RepeatedCall \/ (disc_calls' # disc_calls /\ disc' = disc))
          => /\ active_connections' = active_connections
             /\ device_to_connection' = device_to_connection
             /\ ws' = ws
             /\ redis' = redis
             /\ task_errors' = task_errors
             /\ disc' = <<>>]_vars

\* a session was unregistered twice, an unknown id once and an unmapped
\* device once, and all four calls are over
C12_Witness ==
    /\ disc = <<>>
    /\ \E c \in ConnIds : Occurrences(disc_calls, c) = 2 /\ ws[c].closes = 1
    /\ Occurrences(disc_calls, 0) = 1
    /\ Occurrences(disc_calls, -1) = 1

\* the disconnect runs on session c that are suspended: tasks, and the
\* disconnect a connect call runs on the session it displaces
Unregistering(c) ==
    \/ \E i \in 1..Len(disc) : disc[i].connection_id = c
    \/ \E k \in ConnIds : conn[k].victim = c /\ conn[k].pc \in {"close", "delete"}

\* C13 (as claimed): disconnect runs for one session that overlap, the second
\* starting while the first is suspended in close() or in the store's delete,
\* all complete without raising: none ends with the KeyError of a removal
\* that another run has already made, and once the runs that closed the
\* session's channel are over the session is in neither map.
C13_OverlappingUnregister ==
    /\ \A e \in task_errors : e.error # "KeyError"
    /\ \A k \in ConnIds : conn[k].error # "KeyError"
    /\ \A c \in ConnIds :
          (ws[c].closes > 0 /\ ~Unregistering(c)) =>
              /\ c \notin Keys(active_connections)
              /\ \A d \in DOMAIN device_to_connection : device_to_connection[d] # c

\* close() was called on channel c after its peer had gone: the close failed
CloseFailed(c) == ws[c].state = "closed" /\ ws[c].broken

\* C14 (as claimed): when close() fails during disconnect, the error is
\* swallowed: once the disconnect run is over the session is in neither map,
\* its metadata entry is gone from the store, and the run ended with no error.
C14_CloseFailureSwallowed ==
    \A c \in ConnIds :
        (CloseFailed(c) /\ ~Unregistering(c)) =>
            /\ c \notin Keys(active_connections)
            /\ \A d \in DOMAIN device_to_connection : device_to_connection[d] # c
            /\ c \notin redis
            /\ \A e \in task_errors : e.connection_id # c

\* C15 (as claimed): a failure of the key-value store fails neither connect
\* nor disconnect: no connect call and no disconnect run ends with the
\* store's error, whether the store rejected setex (line 168) or delete
\* (line 203).
C15_StoreFailureNeverRaises ==
    /\ \A k \in ConnIds : conn[k].error # "RedisError"
    /\ \A e \in task_errors : e.error # "RedisError"

\* ------------------------------------------------------- time and the loops
\* a reaper interval elapses: every sleep of the two loops is over (the
\* heartbeat's sleep is the shorter one); instants after MaxNow read as MaxNow
Tick ==
    /\ now' = IF now < MaxNow THEN now + ReaperInterval ELSE now
    /\ reaper' = IF reaper.pc = "sleep" THEN [reaper EXCEPT !.slept = TRUE] ELSE reaper
    /\ heartbeat' = IF heartbeat.pc = "sleep" /\ ReaperInterval >= HeartbeatInterval
                    THEN [heartbeat EXCEPT !.slept = TRUE] ELSE heartbeat
    /\ UNCHANGED <<active_connections, device_to_connection, ws, redis, conn,
                   disc, disc_calls, fan, task_errors, bcast, frames, threat_reports, stats>>

\* start_background_tasks: both loops are created and go to sleep
StartBackgroundTasks ==
    /\ reaper.pc = "off"
    /\ heartbeat.pc = "off"
    /\ reaper' = [reaper EXCEPT !.pc = "sleep"]
    /\ heartbeat' = [heartbeat EXCEPT !.pc = "sleep"]
    /\ UNCHANGED <<active_connections, device_to_connection, ws, redis, conn,
                   disc, disc_calls, fan, task_errors, now, bcast, frames, threat_reports, stats>>

\* stop_background_tasks: both tasks are cancelled where they are suspended
StopBackgroundTasks ==
    /\ reaper.pc # "off"
    /\ reaper.pc # "cancelled" \/ heartbeat.pc # "cancelled"
    /\ reaper' = [reaper EXCEPT !.pc = "cancelled"]
    /\ heartbeat' = [heartbeat EXCEPT !.pc = "cancelled"]
    /\ UNCHANGED <<active_connections, device_to_connection, ws, redis, conn,
                   disc, disc_calls, fan, task_errors, now, bcast, frames, threat_reports, stats>>

MinOf(S) == CHOOSE x \in S : \A y \in S : x <= y
CountPass(n) == IF n < MaxPasses THEN n + 1 ELSE n

\* ------------------------------------------------------- reaper
\* (now - connection.last_ping).total_seconds() > 300
IsStale(connection, t) == t - connection.last_ping > StaleAfter

\* lines 472-475: the ids of the stale sessions, in the dict's order
StaleIds(ac, t) ==
    LET stale == SelectSeq(ac, LAMBDA e : IsStale(e, t))
    IN [i \in 1..Len(stale) |-> stale[i].connection_id]

\* an except clause that re-raises what it caught: the task ends
LoopCaught_reraise(r, e) == [r EXCEPT !.pc = "dead", !.slept = FALSE, !.error = e]

\* an exception reached the except of the loop (lines 482, 512): it is
\* logged and the loop goes back to sleep
LoopCaught(r, e) == [r EXCEPT !.pc = "sleep", !.slept = FALSE, !.error = e]

\* lines 478-480: disconnect() of the next stale id; it returns at once for an
\* id that is no longer registered, else close() is awaited; after the last
\* id the loop sleeps again
ReaperNext(r, ac) ==
    LET rest == {j \in (r.idx + 1)..Len(r.stale_connections) :
                    r.stale_connections[j] \in Keys(ac)}
    IN IF rest = {}
       THEN [r EXCEPT !.pc = "sleep", !.slept = FALSE,
                      !.idx = Len(r.stale_connections)]
       ELSE [r EXCEPT !.pc = "close", !.idx = MinOf(rest),
                      !.device_id = Get(ac, r.stale_connections[MinOf(rest)]).device_id]

\* sleep(60) is over: the scan, then the first teardown
ReaperWake ==
    /\ reaper.pc = "sleep"
    /\ reaper.slept
    /\ reaper' = ReaperNext([reaper EXCEPT !.seen = active_connections,
                                           !.scan_now = now,
                                           !.stale_connections = StaleIds(active_connections, now),
                                           !.idx = 0,
                                           !.passes = CountPass(@),
                                           !.error = "none"],
                            active_connections)
    /\ UNCHANGED <<active_connections, device_to_connection, ws, redis, conn,
                   disc, disc_calls, fan, task_errors, now, bcast, heartbeat, frames, threat_reports, stats>>

\* close() of the current stale session completed (lines 189-200)
ReaperCloseDone ==
    /\ reaper.pc = "close"
    /\ LET c == reaper.stale_connections[reaper.idx]
       IN /\ ws' = CloseChannel(ws, c)
          /\ IF c \in Keys(active_connections)
             THEN /\ active_connections' = Del(active_connections, c)
                  /\ device_to_connection' = DelKey(device_to_connection, reaper.device_id)
                  /\ reaper' = [reaper EXCEPT !.pc = "delete"]
             ELSE /\ reaper' = LoopCaught(reaper, "KeyError")
                  /\ UNCHANGED <<active_connections, device_to_connection>>
    /\ UNCHANGED <<redis, conn, disc, disc_calls, fan, task_errors, now, bcast,
                   heartbeat, frames, threat_reports, stats>>

\* redis.delete for the current stale session completed (line 203)
ReaperDeleteDone ==
    /\ reaper.pc = "delete"
    /\ \E ok \in BOOLEAN :
        IF ok
        THEN /\ redis' = redis \ {reaper.stale_connections[reaper.idx]}
             /\ reaper' = ReaperNext(reaper, active_connections)
        ELSE /\ reaper' = LoopCaught(reaper, "RedisError")
             /\ UNCHANGED redis
    /\ UNCHANGED <<active_connections, device_to_connection, ws, conn, disc,
                   disc_calls, fan, task_errors, now, bcast, heartbeat, frames, threat_reports, stats>>

\* ------------------------------------------------------- heartbeat
PingMsg(device_id) ==
    [message_type |-> "server_ping", device_id |-> device_id,
     data |-> [server_time |-> "now"]]

\* the for statement of line 500 takes the next entry: the ping to it is
\* awaited, or the loop is over, the failed sessions are scheduled and the
\* task sleeps, or the iterator's error is caught at line 512
HeartbeatNext(h, ac) ==
    CASE IterNext(ac, h.it) = "ok" ->
            [h EXCEPT !.pc = "send",
                      !.cur = Rest(ac, h.it)[1].connection_id,
                      !.device_id = Rest(ac, h.it)[1].device_id,
                      !.it = IterStep(ac, h.it)]
      [] IterNext(ac, h.it) = "stop" ->
            [h EXCEPT !.pc = "sleep", !.slept = FALSE,
                      !.scheduled = SeqToSet(h.failed)]
      [] OTHER -> LoopCaught(h, "RuntimeError")

\* the disconnect tasks a step of the heartbeat creates
HeartbeatTeardowns(h) ==
    IF h.pc = "sleep" /\ h.error = "none" THEN TeardownTasks(h.failed) ELSE <<>>

\* sleep(30) is over: the first ping
HeartbeatWake ==
    /\ heartbeat.pc = "sleep"
    /\ heartbeat.slept
    /\ heartbeat' = HeartbeatNext([heartbeat EXCEPT !.seen = active_connections,
                                                   !.it = DictIter(active_connections),
                                                   !.attempted = {},
                                                   !.failed = <<>>,
                                                   !.scheduled = {},
                                                   !.passes = CountPass(@),
                                                   !.error = "none"],
                                  active_connections)
    /\ UNCHANGED <<active_connections, device_to_connection, ws, redis, conn,
                   disc, disc_calls, fan, task_errors, now, bcast, reaper, frames, threat_reports, stats>>

\* the awaited ping to the current entry completed
HeartbeatSendDone ==
    /\ heartbeat.pc = "send"
    /\ LET ok == CanSend(heartbeat.cur)
           tried == [heartbeat EXCEPT !.attempted = @ \cup {heartbeat.cur}]
           h == HeartbeatNext(IF ok THEN tried
                              ELSE [tried EXCEPT !.failed = Append(@, heartbeat.cur)],
                              active_connections)
       IN /\ ws' = IF ok THEN Deliver(ws, heartbeat.cur, PingMsg(heartbeat.device_id)) ELSE ws
          /\ heartbeat' = h
          /\ disc' = disc \o HeartbeatTeardowns(h)
    /\ UNCHANGED <<active_connections, device_to_connection, redis, conn,
                   disc_calls, fan, task_errors, now, bcast, reaper, frames, threat_reports, stats>>

\* SpecReapSeq: register calls, time and reaper passes, one at a time: no
\* call is made and no time passes while a pass or a call is under way
QuietReaper == Quiet /\ reaper.pc \in {"off", "sleep"}

NextReapSeq ==
    \/ QuietReaper /\ \E k \in 1..FanConns, d \in Devices : ConnectCall(k, d, {"new_threat"})
    \/ \E k \in ConnIds : ConnectAccepted(k)
    \/ \E k \in ConnIds : ConnectCloseDone(k)
    \/ \E k \in ConnIds : ConnectDeleteDone(k)
    \/ \E k \in ConnIds : ConnectWelcomeDone(k)
    \/ \E k \in ConnIds : ConnectSetexDone(k)
    \/ QuietReaper /\ \E ch \in ConnIds : PeerLost(ch)
    \/ QuietReaper /\ Tick
    \/ QuietReaper /\ StartBackgroundTasks
    \/ Quiet /\ ReaperWake
    \/ ReaperCloseDone
    \/ ReaperDeleteDone

SpecReapSeq == Init /\ [][NextReapSeq]_vars

\* this step ends a reaper pass
PassEnds ==
    /\ reaper.pc # "off"
    /\ reaper.pc = "sleep" => reaper.slept
    /\ reaper'.pc = "sleep"
    /\ ~reaper'.slept

\* what the pass that has just ended should have done
ReaperPassDone ==
    /\ \A i \in 1..Len(reaper.seen) :
          LET e == reaper.seen[i]
          IN IF IsStale(e, reaper.scan_now)
             THEN /\ e.connection_id \notin Keys(active_connections)
                  /\ \A d \in DOMAIN device_to_connection :
                        device_to_connection[d] # e.connection_id
             ELSE /\ e.connection_id \in Keys(active_connections)
                  /\ ws[e.connection_id].closes = 0
    /\ \A c \in ConnIds : ws[c].closes <= 1
    /\ reaper.stale_connections = <<>> => reaper.error = "none"

\* C16 (as claimed): at the end of a reaper pass that ran with no other
\* activity, every session that was more than 300 s past its last_ping at
\* the scan is gone from both maps and every session that was 300 s or less
\* past it is still registered with its channel open; no channel has been
\* closed twice, and a pass that found nothing stale has raised nothing.
C16_ReaperPass == [][PassEnds => ReaperPassDone']_vars

\* SpecReap: reaper passes interleaved with connect and disconnect tasks
\* (the clock is read between passes)
NextReap ==
    \/ \E k \in 1..FanConns, d \in Devices : ConnectCall(k, d, {"new_threat"})
    \/ \E k \in ConnIds : ConnectAccepted(k)
    \/ \E k \in ConnIds : ConnectCloseDone(k)
    \/ \E k \in ConnIds : ConnectDeleteDone(k)
    \/ \E k \in ConnIds : ConnectWelcomeDone(k)
    \/ \E k \in ConnIds : ConnectSetexDone(k)
    \/ \E c \in ConnIds : ExternalDisconnect(c)
    \/ \E i \in 1..Len(disc) : DisconnectStart(i)
    \/ \E i \in 1..Len(disc) : DisconnectCloseDone(i)
    \/ \E i \in 1..Len(disc) : DisconnectDeleteDone(i)
    \/ reaper.pc \in {"off", "sleep"} /\ Tick
    \/ StartBackgroundTasks
    \/ ReaperWake
    \/ ReaperCloseDone
    \/ ReaperDeleteDone

SpecReap == Init /\ [][NextReap]_vars

\* every session the scan of the pass found stale is unregistered
StaleAllGone ==
    \A i \in 1..Len(reaper.stale_connections) :
        reaper.stale_connections[i] \notin Keys(active_connections)

\* C17 (as claimed): at the end of a reaper pass, every session that was
\* stale at the scan (none is refreshed afterwards) is unregistered, also
\* when other tasks registered and unregistered sessions, stale ones
\* included, while the pass was suspended in a teardown. Read for the passes
\* in which the store accepted every delete.
C17_ReaperAmongTasks ==
    [][(PassEnds /\ reaper'.error # "RedisError") => StaleAllGone']_vars

\* SpecHb: MaxPasses heartbeat passes interleaved with connect calls (a
\* reconnect unregisters the device's previous session), with the disconnect
\* tasks the passes create and with peers going away (the clock is read when
\* a sleep ends)
NextHb ==
    \/ \E k \in 1..FanConns, d \in Devices : ConnectCall(k, d, {"new_threat"})
    \/ \E k \in ConnIds : ConnectAccepted(k)
    \/ \E k \in ConnIds : ConnectCloseDone(k)
    \/ \E k \in ConnIds : ConnectDeleteDone(k)
    \/ \E k \in ConnIds : ConnectWelcomeDone(k)
    \/ \E k \in ConnIds : ConnectSetexDone(k)
    \/ \E i \in 1..Len(disc) : DisconnectStart(i)
    \/ \E i \in 1..Len(disc) : DisconnectCloseDone(i)
    \/ \E i \in 1..Len(disc) : DisconnectDeleteDone(i)
    \/ \E ch \in ConnIds : PeerLost(ch)
    \/ heartbeat.pc = "sleep" /\ ~heartbeat.slept /\ Tick
    \/ StartBackgroundTasks
    \/ heartbeat.passes < MaxPasses /\ HeartbeatWake
    \/ HeartbeatSendDone

SpecHb == Init /\ [][NextHb]_vars

\* this step ends a heartbeat pass
HeartbeatPassEnds ==
    /\ heartbeat.pc # "off"
    /\ heartbeat.pc = "sleep" => heartbeat.slept
    /\ heartbeat'.pc = "sleep"
    /\ ~heartbeat'.slept

\* what the pass that has just ended should have done
HeartbeatPassDone ==
    /\ \A c \in Keys(heartbeat.seen) \cap Keys(active_connections) :
          c \in heartbeat.attempted
    /\ \A c \in SeqToSet(heartbeat.failed) :
          \/ c \in heartbeat.scheduled
          \/ c \notin Keys(active_connections)

\* C18 (as claimed): at the end of a heartbeat pass, a server_ping has been
\* sent to every session that was registered from the start of the pass to
\* its end, and every session whose ping failed is unregistered or has its
\* teardown scheduled, also when other tasks registered and unregistered
\* sessions while the pass was suspended in a send.
C18_HeartbeatAmongTasks == [][HeartbeatPassEnds => HeartbeatPassDone']_vars

\* ------------------------------------------------------- the loops, for ever
\* InitLoops: two devices have registered at time 0 and nothing else has
\* happened
InitLoops ==
    /\ now = 0
    /\ active_connections = <<ConnectionInfo(1, "D1", {"new_threat"}),
                              ConnectionInfo(2, "D2", {"new_threat"})>>
    /\ device_to_connection = [d \in Devices |-> IF d = "D1" THEN 1 ELSE 2]
    /\ ws = [k \in ConnIds |->
                [state |-> IF k <= 2 THEN "open" ELSE "new", broken |-> FALSE,
                 closes |-> 0, sent |-> <<>>]]
    /\ redis = {1, 2}
    /\ conn = [k \in ConnIds |->
                 IF k = 1 THEN [NewCall EXCEPT !.pc = "done", !.subscriptions = {"new_threat"}]
                 ELSE IF k = 2
                 THEN [NewCall EXCEPT !.pc = "done", !.device_id = "D2",
                                      !.subscriptions = {"new_threat"}]
                 ELSE NewCall]
    /\ disc = <<>>
    /\ disc_calls = <<>>
    /\ fan = IdleFan
    /\ task_errors = {}
    /\ bcast = IdleBcast
    /\ heartbeat = IdleHeartbeat
    /\ reaper = IdleReaper
    /\ frames = [k \in ConnIds |-> IdleFrames]
    /\ threat_reports = <<>>
    /\ stats = NoStats

\* SpecLoops: both loops run for ever over the two sessions, among the
\* disconnect tasks the heartbeat creates and peers going away, until they
\* are stopped; each loop changes the registry under the other.
\* A sleep ends when the time has passed, and an awaited send, close or
\* store call completes or fails: the steps of the loops and of the
\* disconnect tasks are taken whenever they stay possible.
\* a step of one of the running disconnect tasks
TeardownStep ==
    \E i \in 1..Len(disc) :
        DisconnectStart(i) \/ DisconnectCloseDone(i) \/ DisconnectDeleteDone(i)

\* the heartbeat wakes after the teardown tasks of its last pass have run
HeartbeatWakeNext == disc = <<>> /\ HeartbeatWake

NextLoops ==
    \/ \E i \in 1..Len(disc) : DisconnectStart(i)
    \/ \E i \in 1..Len(disc) : DisconnectCloseDone(i)
    \/ \E i \in 1..Len(disc) : DisconnectDeleteDone(i)
    \/ \E ch \in ConnIds : PeerLost(ch)
    \/ Tick
    \/ StartBackgroundTasks
    \/ StopBackgroundTasks
    \/ ReaperWake
    \/ ReaperCloseDone
    \/ ReaperDeleteDone
    \/ HeartbeatWakeNext
    \/ HeartbeatSendDone

SpecLoops ==
    /\ InitLoops
    /\ [][NextLoops]_vars
    /\ WF_vars(Tick)
    /\ WF_vars(TeardownStep)
    /\ WF_vars(ReaperWake)
    /\ WF_vars(ReaperCloseDone)
    /\ WF_vars(ReaperDeleteDone)
    /\ WF_vars(HeartbeatWakeNext)
    /\ WF_vars(HeartbeatSendDone)

\* a loop is at the top of an iteration: sleep() has just been called
AtTop(r) == r.pc = "sleep" /\ ~r.slept
Stopped(r) == r.pc \in {"off", "cancelled"}

\* C19 (as claimed): once started and until stop_background_tasks cancels
\* them, the reaper loop and the heartbeat loop are never ended by an error
\* of an iteration (a failed send, a failed close, a store error, a KeyError
\* or RuntimeError from a registry changed by another task), and each of
\* them again and again leaves the top of its loop and comes back to it.
C19_LoopsKeepRunning ==
    /\ [](reaper.pc # "dead" /\ heartbeat.pc # "dead")
    /\ []<>(Stopped(reaper) \/ AtTop(reaper))
    /\ []<>(Stopped(reaper) \/ ~AtTop(reaper))
    /\ []<>(Stopped(heartbeat) \/ AtTop(heartbeat))
    /\ []<>(Stopped(heartbeat) \/ ~AtTop(heartbeat))

\* both loops are at the top of an iteration after a pass that an error
\* ended: the reaper's after a store error or a KeyError, the heartbeat's
\* after a RuntimeError
C19_Witness ==
    /\ AtTop(reaper) /\ reaper.error \in {"RedisError", "KeyError"}
    /\ AtTop(heartbeat) /\ heartbeat.error = "RuntimeError"
    /\ \E c \in SeqToSet(heartbeat.failed) : TRUE

\* ------------------------------------------------------- client frames
\* frames handled in one behaviour
MaxFrames == 2

\* (assignment in place of update)
SubscribeTo_replace(subscriptions, threat_types) == threat_types

\* connection.subscriptions.update(new_subscriptions)
SubscribeTo(subscriptions, threat_types) == subscriptions \cup threat_types

\* connection.subscriptions -= remove_subscriptions
UnsubscribeFrom(subscriptions, threat_types) == subscriptions \ threat_types

\* (every session holds the same set object as its subscriptions)
SetConn_shared(ac, c, e) ==
    [i \in 1..Len(ac) |-> IF ac[i].connection_id = c THEN e
                          ELSE [ac[i] EXCEPT !.subscriptions = e.subscriptions]]

\* the dict with the entry of connection c replaced
SetConn(ac, c, e) ==
    [i \in 1..Len(ac) |-> IF ac[i].connection_id = c THEN e ELSE ac[i]]

\* a frame: message_data with its type, its threat_types as a set, and its
\* risk_threshold when the key is present
Frame(type, threat_types, has_threshold, risk_threshold) ==
    [type |-> type, threat_types |-> threat_types,
     has_threshold |-> has_threshold, risk_threshold |-> risk_threshold]

PongMsg(device_id) ==
    [message_type |-> "pong", device_id |-> device_id,
     data |-> [server_time |-> "now"]]

AckMsg(e) ==
    [message_type |-> "subscription_updated", device_id |-> e.device_id,
     data |-> [subscriptions |-> e.subscriptions,
               risk_threshold |-> e.risk_threshold]]

\* str(uuid.uuid4()) of _handle_threat_report: a token no other report has,
\* here the connection id and the number of the frame on that connection
ReportId(c) == <<c, Len(frames[c].log) + 1>>

\* the report that _handle_threat_report pushes
Report(report_id, device_id) == [report_id |-> report_id, device_id |-> device_id]

ReportAckMsg(device_id, report_id) ==
    [message_type |-> "report_acknowledged", device_id |-> device_id,
     data |-> [report_id |-> report_id]]

\* (handle_client_message without line 298)
Handled_unseen(e, f) ==
    CASE f.type = "subscribe" ->
               [e EXCEPT !.subscriptions = SubscribeTo(@, f.threat_types),
                         !.risk_threshold = IF f.has_threshold
                                            THEN f.risk_threshold ELSE @]
         [] f.type = "unsubscribe" ->
               [e EXCEPT !.subscriptions = UnsubscribeFrom(@, f.threat_types)]
         [] OTHER -> e

\* the session after the synchronous part of handle_client_message
Handled(e, f) ==
    LET seen == [e EXCEPT !.last_ping = now]
    IN CASE f.type = "subscribe" ->
               [seen EXCEPT !.subscriptions = SubscribeTo(@, f.threat_types),
                            !.risk_threshold = IF f.has_threshold
                                               THEN f.risk_threshold ELSE @]
         [] f.type = "unsubscribe" ->
               [seen EXCEPT !.subscriptions = UnsubscribeFrom(@, f.threat_types)]
         [] OTHER -> seen

\* (every frame is answered)
FirstAwait_reply(f) == IF f.type = "report_threat" THEN "lpush" ELSE "send"

\* what handle_client_message awaits first for a frame
FirstAwait(f) ==
    CASE f.type \in {"ping", "subscribe"} -> "send"
      [] f.type = "report_threat" -> "lpush"
      [] OTHER -> "idle"

FrameReply(e, f, report_id) ==
    CASE f.type = "ping" -> PongMsg(e.device_id)
      [] f.type = "subscribe" -> AckMsg(e)
      [] OTHER -> ReportAckMsg(e.device_id, report_id)

\* the record of one handle_client_message call: the frame, whether the id
\* was registered, the subscriptions before and after, the exception raised
\* to the caller, the exception caught inside, and the envelopes written
Entry(f, registered, before, after) ==
    [frame |-> f, registered |-> registered, before |-> before, after |-> after,
     error |-> "none", caught |-> "none", sent |-> <<>>]

\* the frames handle_client_message has been called with so far
FramesHandled == SumOver(ConnIds, [c \in ConnIds |-> Len(frames[c].log)])

\* handle_client_message without the membership test of line 291: a frame
\* for an id that is not registered is answered on the id's channel
HandleClientMessage_unchecked(c, f) ==
    /\ frames[c].pc = "idle"
    /\ FramesHandled < MaxFrames
    /\ IF c \in Keys(active_connections)
       THEN LET e == Get(active_connections, c)
            IN /\ active_connections' = SetConn(active_connections, c, Handled(e, f))
               /\ frames' = [frames EXCEPT
                     ![c].pc = FirstAwait(f),
                     ![c].reply = FrameReply(Handled(e, f), f, ReportId(c)),
                     ![c].report = Report(ReportId(c), e.device_id),
                     ![c].log = Append(@, Entry(f, TRUE, e.subscriptions,
                                                Handled(e, f).subscriptions))]
       ELSE /\ UNCHANGED active_connections
            /\ frames' = [frames EXCEPT
                     ![c].pc = "send",
                     ![c].reply = PongMsg(conn[c].device_id),
                     ![c].log = Append(@, Entry(f, FALSE, {}, {}))]
    /\ UNCHANGED <<device_to_connection, ws, redis, conn, disc, disc_calls, fan,
                   task_errors, now, bcast, heartbeat, reaper, threat_reports, stats>>

\* handle_client_message(c, f) is called: it returns at once for an id that
\* is not registered; else the session is updated and the reply is awaited
HandleClientMessage(c, f) ==
    /\ frames[c].pc = "idle"
    /\ FramesHandled < MaxFrames
    /\ IF c \in Keys(active_connections)
       THEN LET e == Get(active_connections, c)
            IN /\ active_connections' = SetConn(active_connections, c, Handled(e, f))
               /\ frames' = [frames EXCEPT
                     ![c].pc = FirstAwait(f),
                     ![c].reply = FrameReply(Handled(e, f), f, ReportId(c)),
                     ![c].report = Report(ReportId(c), e.device_id),
                     ![c].log = Append(@, Entry(f, TRUE, e.subscriptions,
                                                Handled(e, f).subscriptions))]
       ELSE /\ UNCHANGED active_connections
            /\ frames' = [frames EXCEPT
                     ![c].log = Append(@, Entry(f, FALSE, {}, {}))]
    /\ UNCHANGED <<device_to_connection, ws, redis, conn, disc, disc_calls, fan,
                   task_errors, now, bcast, heartbeat, reaper, threat_reports, stats>>

\* the awaited pong or subscription_updated send completed; its failure is
\* raised to the caller of handle_client_message
FrameSendDone(c) ==
    /\ frames[c].pc = "send"
    /\ IF CanSend(c)
       THEN /\ ws' = Deliver(ws, c, frames[c].reply)
            /\ frames' = [frames EXCEPT ![c].pc = "idle",
                              ![c].log[Len(frames[c].log)].sent = Append(@, frames[c].reply)]
       ELSE /\ UNCHANGED ws
            /\ frames' = [frames EXCEPT ![c].pc = "idle",
                                        ![c].log[Len(frames[c].log)].error = "SendError"]
    /\ UNCHANGED <<active_connections, device_to_connection, redis, conn, disc,
                   disc_calls, fan, task_errors, now, bcast, heartbeat, reaper, threat_reports, stats>>

\* (the acknowledgement is sent whether or not the push succeeded)
FrameLpushDone_always(c) ==
    /\ frames[c].pc = "lpush"
    /\ \E ok \in BOOLEAN :
          /\ threat_reports' = IF ok THEN <<frames[c].report>> \o threat_reports
                                     ELSE threat_reports
          /\ frames' = [frames EXCEPT ![c].pc = "ack"]
    /\ UNCHANGED <<active_connections, device_to_connection, ws, redis, conn,
                   disc, disc_calls, fan, task_errors, now, bcast, heartbeat,
                   reaper, stats>>

\* redis.lpush of _handle_threat_report completed: the acknowledgement is
\* awaited, or the store's error is caught and logged (line 460)
FrameLpushDone(c) ==
    /\ frames[c].pc = "lpush"
    /\ \E ok \in BOOLEAN :
          IF ok
          THEN /\ threat_reports' = <<frames[c].report>> \o threat_reports
               /\ frames' = [frames EXCEPT ![c].pc = "ack"]
          ELSE /\ UNCHANGED threat_reports
               /\ frames' = [frames EXCEPT ![c].pc = "idle",
                                 ![c].log[Len(frames[c].log)].caught = "RedisError"]
    /\ UNCHANGED <<active_connections, device_to_connection, ws, redis, conn,
                   disc, disc_calls, fan, task_errors, now, bcast, heartbeat,
                   reaper, stats>>

\* the awaited report_acknowledged send completed; its failure is caught
FrameAckDone(c) ==
    /\ frames[c].pc = "ack"
    /\ IF CanSend(c)
       THEN /\ ws' = Deliver(ws, c, frames[c].reply)
            /\ frames' = [frames EXCEPT ![c].pc = "idle",
                              ![c].log[Len(frames[c].log)].sent = Append(@, frames[c].reply)]
       ELSE /\ UNCHANGED ws
            /\ frames' = [frames EXCEPT ![c].pc = "idle",
                              ![c].log[Len(frames[c].log)].caught = "SendError"]
    /\ UNCHANGED <<active_connections, device_to_connection, redis, conn, disc,
                   disc_calls, fan, task_errors, now, bcast, heartbeat, reaper, threat_reports, stats>>

FrameTags == {{"malware"}, {"new_threat"}}
\* risk_threshold values a subscribe frame carries
FrameThresholds == {80, 150}
\* "None": the frame has no type key (message_data.get("type") is None)
FrameChoices ==
    {Frame(t, {}, FALSE, 0) : t \in {"ping", "report_threat", "preferences", "None"}}
    \cup {Frame("subscribe", s, FALSE, 0) : s \in FrameTags}
    \cup {Frame("subscribe", {"new_threat"}, TRUE, th) : th \in FrameThresholds}
    \cup {Frame("unsubscribe", s, FALSE, 0) : s \in FrameTags}

\* SpecFrames: register calls (a reconnect unregisters the device's previous
\* session) and frames, each handled to its end before the next arrives
QuietFrames == Quiet /\ \A c \in ConnIds : frames[c].pc = "idle"

NextFrames ==
    \/ QuietFrames /\ \E k \in 1..FanConns, d \in Devices : ConnectCall(k, d, {})
    \/ \E k \in ConnIds : ConnectAccepted(k)
    \/ \E k \in ConnIds : ConnectCloseDone(k)
    \/ \E k \in ConnIds : ConnectDeleteDone(k)
    \/ \E k \in ConnIds : ConnectWelcomeDone(k)
    \/ \E k \in ConnIds : ConnectSetexDone(k)
    \/ QuietFrames /\ \E ch \in ConnIds : PeerLost(ch)
    \/ QuietFrames /\ \E c \in 1..FanConns, f \in FrameChoices : HandleClientMessage(c, f)
    \/ \E c \in ConnIds : FrameSendDone(c)
    \/ \E c \in ConnIds : FrameLpushDone(c)
    \/ \E c \in ConnIds : FrameAckDone(c)

SpecFrames == Init /\ [][NextFrames]_vars

\* C20 (as claimed): when a subscribe frame with threat_types = [t] and then
\* an unsubscribe frame with threat_types = [t] have been handled for a
\* registered session whose subscriptions did not contain t, the session's
\* subscriptions are what they were before the pair.
C20_SubscribeUnsubscribe ==
    \A c \in ConnIds : \A i \in 1..(Len(frames[c].log) - 1) :
        LET first == frames[c].log[i]
            second == frames[c].log[i + 1]
        IN (/\ first.registered /\ second.registered
            /\ first.frame.type = "subscribe"
            /\ second.frame.type = "unsubscribe"
            /\ Cardinality(first.frame.threat_types) = 1
            /\ second.frame.threat_types = first.frame.threat_types
            /\ first.frame.threat_types \cap first.before = {})
           => /\ second.after = first.before
              /\ c \in Keys(active_connections) /\ frames[c].pc = "idle"
                    /\ i + 1 = Len(frames[c].log)
                 => Get(active_connections, c).subscriptions = first.before

\* the pair has been handled for a session with the default subscriptions
\* and a tag outside them, and the session is still registered
C20_Witness ==
    \E c \in ConnIds :
        /\ Len(frames[c].log) = 2
        /\ frames[c].log[1].registered /\ frames[c].log[2].registered
        /\ frames[c].log[1].frame.type = "subscribe"
        /\ frames[c].log[1].frame.threat_types = {"new_threat"}
        /\ frames[c].log[1].before = DefaultSubscriptions
        /\ frames[c].log[1].after = DefaultSubscriptions \cup {"new_threat"}
        /\ frames[c].log[2].frame.type = "unsubscribe"
        /\ frames[c].log[2].frame.threat_types = {"new_threat"}
        /\ c \in Keys(active_connections)
        /\ Get(active_connections, c).subscriptions = DefaultSubscriptions

\* ------------------------------------------------------- C21..C23
\* this step is a handle_client_message call for connection id c
FrameCalled(c) == Len(frames'[c].log) = Len(frames[c].log) + 1
\* the record of the call this step makes
NewEntry(c) == frames'[c].log[Len(frames'[c].log)]
\* the record of the call being handled, or handled last, for c
LastEntry(c) == frames[c].log[Len(frames[c].log)]

\* C21 (as claimed): a handle_client_message call for a connection id that is
\* not in active_connections changes neither map, no session, no channel,
\* nothing in the store, awaits nothing and raises nothing.
C21_UnregisteredFrameNoOp ==
    [][\A c \in ConnIds :
          (FrameCalled(c) /\ c \notin Keys(active_connections))
          => /\ UNCHANGED <<active_connections, device_to_connection, ws, redis,
                            threat_reports, disc, task_errors>>
             /\ frames'[c].pc = "idle"
             /\ NewEntry(c).error = "none"
             /\ NewEntry(c).caught = "none"
             /\ NewEntry(c).sent = <<>>]_vars

\* a subscribe frame was handled for the id of a session that had been
\* registered and torn down, while another session is registered
C21_Witness ==
    \E c \in ConnIds :
        /\ frames[c].log # <<>>
        /\ ~LastEntry(c).registered
        /\ LastEntry(c).frame.type = "subscribe"
        /\ conn[c].pc = "done"
        /\ ws[c].closes > 0
        /\ c \notin Keys(active_connections)
        /\ active_connections # <<>>

\* the types handle_client_message has a branch for
RecognizedTypes == {"ping", "subscribe", "unsubscribe", "report_threat"}

\* C22 (as claimed): a frame of a registered session whose type is missing or
\* is none of the recognized ones is answered with nothing and raises
\* nothing; both maps keep their keys and every session keeps its
\* subscriptions, risk_threshold and geographic_regions.
C22_UnknownFrameIgnored ==
    [][\A c \in ConnIds :
          (/\ FrameCalled(c)
           /\ c \in Keys(active_connections)
           /\ NewEntry(c).frame.type \notin RecognizedTypes)
          => /\ frames'[c].pc = "idle"
             /\ NewEntry(c).error = "none"
             /\ NewEntry(c).caught = "none"
             /\ NewEntry(c).sent = <<>>
             /\ UNCHANGED <<device_to_connection, ws, redis, threat_reports,
                            disc, task_errors>>
             /\ Keys(active_connections') = Keys(active_connections)
             /\ \A k \in Keys(active_connections) :
                   /\ Get(active_connections', k).subscriptions
                          = Get(active_connections, k).subscriptions
                   /\ Get(active_connections', k).risk_threshold
                          = Get(active_connections, k).risk_threshold
                   /\ Get(active_connections', k).geographic_regions
                          = Get(active_connections, k).geographic_regions
                   /\ Get(active_connections', k).device_id
                          = Get(active_connections, k).device_id]_vars

\* a frame without a type and a frame of an unknown type have been handled
\* for registered sessions, one of them after the session's preferences had
\* been changed by a subscribe frame
C22_Witness ==
    \E c \in ConnIds :
        /\ Len(frames[c].log) = 2
        /\ LastEntry(c).registered
        /\ LastEntry(c).frame.type \in {"None", "preferences"}
        /\ frames[c].log[1].frame.type = "subscribe"
        /\ frames[c].log[1].frame.has_threshold
        /\ c \in Keys(active_connections)
        /\ Get(active_connections, c).risk_threshold # DefaultRiskThreshold
        /\ Get(active_connections, c).device_id \in DOMAIN device_to_connection
        /\ device_to_connection[Get(active_connections, c).device_id] = c

\* the places of the report with this id in the queue
Copies(report_id) ==
    {j \in 1..Len(threat_reports) : threat_reports[j].report_id = report_id}

\* C23 (as claimed): a report_threat frame of a registered session puts one
\* report, with an id no other report has and the session's device_id, on
\* the threat_reports list and then sends one report_acknowledged envelope
\* with that id on the session's channel; when the push fails nothing is
\* sent, nothing is raised and the session stays in both maps.
C23_ReportThreat ==
    [][\A c \in ConnIds :
          /\ \A i \in 1..Len(frames'[c].log) :
                LET e == frames'[c].log[i]
                    ack == ReportAckMsg(conn'[c].device_id, <<c, i>>)
                    handled == i < Len(frames'[c].log) \/ frames'[c].pc = "idle"
                    copies == {j \in 1..Len(threat_reports') :
                                  threat_reports'[j].report_id = <<c, i>>}
                IN (e.registered /\ e.frame.type = "report_threat")
                   => /\ Cardinality(copies) <= 1
                      /\ \A j \in copies : threat_reports'[j].device_id = conn'[c].device_id
                      /\ e.error = "none"
                      /\ e.sent # <<>> => e.sent = <<ack>> /\ copies # {}
                      /\ (handled /\ copies # {} /\ e.caught = "none") => e.sent = <<ack>>
                      /\ (handled /\ copies = {}) => e.sent = <<>> /\ e.caught = "RedisError"
          \* the push is awaited before anything is sent
          /\ (FrameCalled(c) /\ NewEntry(c).registered
                /\ NewEntry(c).frame.type = "report_threat")
             => /\ frames'[c].pc = "lpush"
                /\ Copies(ReportId(c)) = {}
                /\ UNCHANGED <<threat_reports, ws>>
          \* the push succeeds: one report more, the acknowledgement is next
          /\ (frames[c].pc = "lpush" /\ frames'[c].pc = "ack")
             => /\ Len(threat_reports') = Len(threat_reports) + 1
                /\ UNCHANGED <<active_connections, device_to_connection, ws>>
          \* the push fails
          /\ (frames[c].pc = "lpush" /\ frames'[c].pc = "idle")
             => UNCHANGED <<active_connections, device_to_connection, ws,
                            threat_reports, disc, task_errors>>
          \* the acknowledgement reaches a channel that takes it
          /\ (frames[c].pc = "ack" /\ frames'[c].pc = "idle")
             => /\ UNCHANGED <<active_connections, device_to_connection, threat_reports>>
                /\ CanSend(c) => /\ NewEntry(c).sent = <<frames[c].reply>>
                                 /\ Len(ws[c].sent) < MaxSent
                                       => ws'[c].sent = Append(ws[c].sent, frames[c].reply)
                /\ ~CanSend(c) => NewEntry(c).sent = <<>> /\ UNCHANGED ws]_vars

\* one report_threat frame was queued and acknowledged on the session's
\* channel, and the push of another failed while its session stayed
\* registered
C23_Witness ==
    \E c, k \in ConnIds :
        /\ frames[c].pc = "idle" /\ frames[k].pc = "idle"
        /\ \E i \in 1..Len(frames[c].log) :
              /\ frames[c].log[i].registered
              /\ frames[c].log[i].frame.type = "report_threat"
              /\ frames[c].log[i].sent = <<ReportAckMsg(conn[c].device_id, <<c, i>>)>>
              /\ Cardinality(Copies(<<c, i>>)) = 1
              /\ ReportAckMsg(conn[c].device_id, <<c, i>>) \in SeqToSet(ws[c].sent)
        /\ \E i \in 1..Len(frames[k].log) :
              /\ frames[k].log[i].registered
              /\ frames[k].log[i].frame.type = "report_threat"
              /\ frames[k].log[i].caught = "RedisError"
              /\ Copies(<<k, i>>) = {}
              /\ k \in Keys(active_connections)

\* ------------------------------------------------------- C24
\* the subscriptions connect() stores for call k (line 142)
EffectiveSubscriptions(k) ==
    IF conn[k].subscriptions # {} THEN conn[k].subscriptions ELSE DefaultSubscriptions

\* C24 (as claimed): the connection_established envelope that connect() sends
\* carries the connection id of the call and, as its subscriptions, the
\* subscriptions connect() stored for the session, with and without
\* subscriptions passed to connect().
C24_WelcomeSubscriptions ==
    \A k \in ConnIds : \A i \in 1..Len(ws[k].sent) :
        ws[k].sent[i].message_type = "connection_established"
        => /\ ws[k].sent[i].data.connection_id = k
           /\ ws[k].sent[i].data.subscriptions = EffectiveSubscriptions(k)
           /\ k \in Keys(active_connections)
                => ws[k].sent[i].data.subscriptions
                      = Get(active_connections, k).subscriptions

\* ------------------------------------------------------- C25
\* C25 (as claimed): every session in active_connections has a risk_threshold
\* in 0..100, whatever the subscribe frames handled so far carried.
C25_RiskThresholdRange ==
    \A i \in 1..Len(active_connections) :
        active_connections[i].risk_threshold \in 0..100

\* ------------------------------------------------------- C26
\* C26 (as claimed): in every state a task can be suspended in, every session
\* in active_connections is the one device_to_connection gives for its
\* device_id.
C26_MapsAgree ==
    \A i \in 1..Len(active_connections) :
        LET e == active_connections[i]
        IN /\ e.device_id \in DOMAIN device_to_connection
           /\ device_to_connection[e.device_id] = e.connection_id

\* ------------------------------------------------------- C27
\* the session of channel ch has been terminated: its channel is closed and
\* it is in the registry no more
Terminated(ch) == ws[ch].state = "closed" /\ ch \notin Keys(active_connections)

\* this step awaits a send on channel ch
SendIssued(ch) ==
    \/ /\ fan'.pc = "send"
       /\ fan.pc # "send" \/ fan'.idx # fan.idx
       /\ fan'.target_connections[fan'.idx].websocket = ch
    \/ /\ bcast'.pc = "send"
       /\ bcast' # bcast
       /\ bcast'.cur = ch
    \/ /\ heartbeat'.pc = "send"
       /\ heartbeat' # heartbeat
       /\ heartbeat'.cur = ch
    \/ /\ frames'[ch].pc \in {"send", "ack"}
       /\ frames'[ch].pc # frames[ch].pc

\* this step awaits close() of channel ch
CloseIssued(ch) ==
    \/ \E k \in ConnIds :
          conn[k].pc # "close" /\ conn'[k].pc = "close" /\ conn'[k].victim = ch
    \/ /\ Len(disc') = Len(disc)
       /\ \E i \in 1..Len(disc) :
             /\ disc[i].pc = "start" /\ disc'[i].pc = "close"
             /\ disc'[i].connection_id = ch

\* C27 (as claimed): no task starts a send or a close on the channel of a
\* session that has been terminated.
C27_NoUseAfterTermination ==
    [][\A ch \in ConnIds :
          Terminated(ch) => ~SendIssued(ch) /\ ~CloseIssued(ch)]_vars

\* ------------------------------------------------------- C28
\* SpecStamp: two registered sessions of two devices; one fan-out call
\* (send_threat_alert or send_security_update), one broadcast and the
\* heartbeat run interleaved, with the teardowns they schedule
UntargetedCall == [given |-> FALSE, list |-> <<>>]

NextStamp ==
    \/ SendThreatAlertCall(HighAlert, UntargetedCall)
    \/ SendSecurityUpdateCall(UntargetedCall)
    \/ FanSendDone
    \/ BroadcastCall
    \/ BroadcastSendDone
    \/ StartBackgroundTasks
    \/ heartbeat.pc = "sleep" /\ ~heartbeat.slept /\ Tick
    \/ heartbeat.passes < MaxPasses /\ HeartbeatWake
    \/ HeartbeatSendDone
    \/ \E i \in 1..Len(disc) : DisconnectStart(i)
    \/ \E i \in 1..Len(disc) : DisconnectCloseDone(i)
    \/ \E i \in 1..Len(disc) : DisconnectDeleteDone(i)
    \/ \E ch \in ConnIds : PeerLost(ch)

SpecStamp == InitLoops /\ [][NextStamp]_vars

\* the message types of the fan-out calls, the broadcast and the heartbeat
StampedTypes == {"threat_alert", "security_update", "system_announcement", "server_ping"}

\* C28 (as claimed): every envelope that send_threat_alert,
\* send_security_update, broadcast_system_message or the heartbeat wrote to
\* a channel carries the device_id of the session the channel belongs to.
C28_StampedPerRecipient ==
    \A ch \in ConnIds : \A i \in 1..Len(ws[ch].sent) :
        ws[ch].sent[i].message_type \in StampedTypes
        => ws[ch].sent[i].device_id = conn[ch].device_id

\* the first session got envelopes of two kinds and the second session one,
\* while a fan-out call and the broadcast are both suspended in their send to
\* the second session
C28_Witness ==
    /\ Len(ws[1].sent) = 2
    /\ ws[1].sent[1].message_type # ws[1].sent[2].message_type
    /\ \A i \in 1..2 : ws[1].sent[i].message_type \in StampedTypes
    /\ ws[2].sent # <<>>
    /\ ws[2].sent[1].message_type \in StampedTypes
    /\ conn[1].device_id # conn[2].device_id
    /\ fan.pc = "send" /\ fan.idx = 2
    /\ bcast.pc = "send" /\ bcast.cur = 2

\* ------------------------------------------------------- get_connection_stats
\* lines 376-399; uptime_seconds, the difference of two readings of the
\* clock within the call, is left out
ConnectionStats(ac, t) ==
    [total_connections |-> Len(ac),
     stale_connections |-> Cardinality({i \in 1..Len(ac) : IsStale(ac[i], t)}),
     subscription_counts |->
         [s \in UNION {ac[i].subscriptions : i \in 1..Len(ac)} |->
             Cardinality({i \in 1..Len(ac) : s \in ac[i].subscriptions})]]

GetConnectionStats ==
    /\ stats' = ConnectionStats(active_connections, now)
    /\ UNCHANGED <<active_connections, device_to_connection, ws, redis, conn,
                   disc, disc_calls, fan, task_errors, now, bcast, heartbeat,
                   reaper, frames, threat_reports>>

\* ------------------------------------------------------- C29
\* SpecPrefs: two registered sessions; frames of both, a fan-out call, a
\* broadcast, get_connection_stats, the heartbeat and the reaper, each run
\* to its end before the next begins; the fan-out call, the broadcast and
\* get_connection_stats are made before start_background_tasks
QuietPrefs ==
    /\ QuietFrames
    /\ bcast.pc # "send"
    /\ heartbeat.pc # "send"
    /\ reaper.pc \in {"off", "sleep"}

PrefFrames ==
    {Frame("subscribe", {"malware"}, TRUE, 80),
     Frame("unsubscribe", {"new_threat"}, FALSE, 0)}

NextPrefs ==
    \/ QuietPrefs /\ \E c \in 1..FanConns, f \in PrefFrames : HandleClientMessage(c, f)
    \/ \E c \in ConnIds : FrameSendDone(c)
    \/ QuietPrefs /\ reaper.pc = "off" /\ SendThreatAlertCall(HighAlert, UntargetedCall)
    \/ QuietPrefs /\ reaper.pc = "off" /\ SendSecurityUpdateCall(UntargetedCall)
    \/ FanSendDone
    \/ QuietPrefs /\ reaper.pc = "off" /\ BroadcastCall
    \/ BroadcastSendDone
    \/ QuietPrefs /\ reaper.pc = "off" /\ stats = NoStats /\ GetConnectionStats
    \/ QuietPrefs /\ StartBackgroundTasks
    \/ QuietPrefs /\ reaper.pc = "sleep" /\ ~reaper.slept
                  /\ (heartbeat.passes < MaxPasses => ~heartbeat.slept) /\ Tick
    \/ QuietPrefs /\ heartbeat.passes < MaxPasses /\ HeartbeatWake
    \/ HeartbeatSendDone
    \/ QuietPrefs /\ ReaperWake
    \/ ReaperCloseDone
    \/ ReaperDeleteDone

SpecPrefs == InitLoops /\ [][NextPrefs]_vars

\* subscriptions, risk_threshold and geographic_regions of a session
Preferences(e) ==
    [subscriptions |-> e.subscriptions, risk_threshold |-> e.risk_threshold,
     geographic_regions |-> e.geographic_regions]

IdleFrameChoices ==
    {Frame(t, {}, FALSE, 0) : t \in {"ping", "report_threat", "preferences"}}
    \cup {Frame("subscribe", {"malware"}, FALSE, 0),
          Frame("unsubscribe", {"new_threat"}, FALSE, 0)}

\* an interval passes while both loops sleep
TickAsleep ==
    /\ reaper.pc = "sleep" /\ ~reaper.slept
    /\ heartbeat.pc = "sleep" /\ ~heartbeat.slept
    /\ Tick

NextIdle ==
    \/ StartBackgroundTasks
    \/ TickAsleep
    \/ ReaperWake
    \/ ReaperCloseDone
    \/ ReaperDeleteDone
    \/ HeartbeatWake
    \/ HeartbeatSendDone
    \/ frames[1].log = <<>> /\ \E f \in IdleFrameChoices : HandleClientMessage(1, f)
    \/ \E c \in ConnIds : FrameSendDone(c)
    \/ \E c \in ConnIds : FrameLpushDone(c)
    \/ \E c \in ConnIds : FrameAckDone(c)

\* the event loop runs every task that can run, and time passes
SpecIdle ==
    /\ InitLoops
    /\ [][NextIdle]_vars
    /\ WF_vars(TickAsleep)
    /\ WF_vars(ReaperWake)
    /\ WF_vars(ReaperCloseDone)
    /\ WF_vars(ReaperDeleteDone)
    /\ WF_vars(HeartbeatWake)
    /\ WF_vars(HeartbeatSendDone)

\* session k is registered and its last inbound frame is more than 300 s ago
Idle(k) ==
    IF k \in Keys(active_connections)
    THEN IsStale(Get(active_connections, k), now)
    ELSE FALSE

\* C30 (as claimed): a step changes last_ping of a session that stays
\* registered only when it handles an inbound frame of that session, and
\* then, whatever the frame's type, last_ping is the current time; sends to
\* the session change nothing of it. So, with the background tasks running, a
\* session whose last frame is more than 300 s ago is unregistered (unless a
\* frame of its own comes first), also when its server_ping sends succeed.
C30_LastSeen ==
    /\ [][\A k \in Keys(active_connections) \cap Keys(active_connections') :
             /\ Get(active_connections', k).last_ping # Get(active_connections, k).last_ping
                   => FrameCalled(k)
             /\ FrameCalled(k) => Get(active_connections', k).last_ping = now
             /\ ws'[k].sent # ws[k].sent
                   => Get(active_connections', k) = Get(active_connections, k)]_vars
    /\ \A k \in 1..FanConns :
          (reaper.pc # "off" /\ Idle(k)) ~> ~Idle(k)
    /\ [][\A k \in 1..FanConns :
             (Idle(k) /\ ~Idle(k)') => (FrameCalled(k) \/ k \notin Keys(active_connections'))]_vars

\* session 2 got server_ping envelopes and sent nothing for more than 300 s:
\* the reaper closed its channel and removed it, while session 1, whose
\* frame came later, is still registered
C30_Witness ==
    /\ 2 \notin Keys(active_connections)
    /\ ws[2].state = "closed"
    /\ frames[2].log = <<>>
    /\ Len(ws[2].sent) = MaxSent
    /\ \A i \in 1..Len(ws[2].sent) : ws[2].sent[i].message_type = "server_ping"
    /\ 1 \in Keys(active_connections)
    /\ frames[1].log # <<>>
    /\ Get(active_connections, 1).last_ping > 0
    /\ now = MaxNow
    /\ reaper.pc = "sleep" /\ reaper.error = "none"

\* ------------------------------------------------------- C31
\* SpecRefresh: two registered sessions and the reaper; a ping frame of
\* session 2 arrives at any time, also while a pass is suspended in the
\* teardown of session 1
TickReaperAsleep == reaper.pc = "sleep" /\ ~reaper.slept /\ Tick

NextRefresh ==
    \/ StartBackgroundTasks
    \/ TickReaperAsleep
    \/ ReaperWake
    \/ ReaperCloseDone
    \/ ReaperDeleteDone
    \/ frames[2].log = <<>> /\ HandleClientMessage(2, Frame("ping", {}, FALSE, 0))
    \/ \E c \in ConnIds : FrameSendDone(c)

SpecRefresh == InitLoops /\ [][NextRefresh]_vars

\* this step has the reaper call disconnect() for session k
ReaperTeardownStarts(k) ==
    /\ reaper'.pc = "close"
    /\ reaper.pc # "close" \/ reaper'.idx # reaper.idx
    /\ reaper'.stale_connections[reaper'.idx] = k

\* this step has the reaper's disconnect() remove session k from the registry
ReaperRemoves(k) ==
    /\ reaper.pc = "close"
    /\ reaper.stale_connections[reaper.idx] = k
    /\ k \in Keys(active_connections)
    /\ k \notin Keys(active_connections')

\* C31 (as claimed): a session the reaper starts to tear down, and a session
\* its teardown removes, is stale at that moment: a session that was stale
\* in the scan and got a frame while the pass was suspended in the teardown
\* of another session is left registered by the pass.
C31_ReaperRechecks ==
    [][\A k \in ConnIds :
          /\ ReaperTeardownStarts(k) => IsStale(Get(active_connections, k), now)
          /\ ReaperRemoves(k) => IsStale(Get(active_connections, k), now)]_vars

\* ------------------------------------------------------- C32
\* C32 (as claimed): when a connect() call has raised, the session of that
\* call is in neither map.
C32_FailedRegisterLeavesNothing ==
    \A k \in ConnIds :
        conn[k].pc = "raised"
        => /\ k \notin Keys(active_connections)
           /\ \A d \in DOMAIN device_to_connection : device_to_connection[d] # k

\* ------------------------------------------------------- C33
\* C33 (as claimed): in every state every device in device_to_connection is
\* mapped to a connection id that is in active_connections, and the session
\* under that id has the device as its device_id.
C33_NoDanglingIndex ==
    \A d \in DOMAIN device_to_connection :
        /\ device_to_connection[d] \in Keys(active_connections)
        /\ Get(active_connections, device_to_connection[d]).device_id = d

\* register calls for one device have overlapped: two of its sessions are
\* registered, the device is mapped to one of them, and an earlier session of
\* the device has been closed and removed
C33_Witness ==
    \E a, b, c \in ConnIds :
        /\ a # b
        /\ {a, b} \subseteq Keys(active_connections)
        /\ Get(active_connections, a).device_id = Get(active_connections, b).device_id
        /\ Get(active_connections, a).device_id \in DOMAIN device_to_connection
        /\ device_to_connection[Get(active_connections, a).device_id] = a
        /\ ws[c].closes > 0
        /\ c \notin Keys(active_connections)

====
